---- MODULE Spec2Model ----
(***************************************************************************)
(* Ingestion-and-retrieval pipeline of the recommendation system:          *)
(* paginated traversal of a source collection (MongoDBConnector), record   *)
(* normalisation (models_to_text), embedding (SBERTModel), and the vector  *)
(* collection (MongoDBVectorStore), driven by IngestionPipeline.run.       *)
(*                                                                         *)
(* Strings are sequences of characters, a character being its Unicode     *)
(* code point, so that the text normaliser is computed character by        *)
(* character as the code does.                                             *)
(* An optional value (Python None / absent key) is the empty sequence and  *)
(* a present value v is <<v>>.                                             *)
(***************************************************************************)
EXTENDS Integers, Sequences, FiniteSets, TLC

(***************************************************************************)
(* Bounds of the model.                                                    *)
(***************************************************************************)
MaxDocs == 3
NumDraws == 2
MaxRequests == 2

(***************************************************************************)
(* Generic helpers on sequences.                                           *)
(***************************************************************************)
None == << >>
Some(v) == << v >>
IsNone(o) == Len(o) = 0
Min(a, b) == IF a <= b THEN a ELSE b
Max(a, b) == IF a >= b THEN a ELSE b

RECURSIVE FlattenRange(_, _, _)
\* parts[lo] \o ... \o parts[hi], by halving.
FlattenRange(parts, lo, hi) ==
    IF lo > hi THEN << >>
    ELSE IF lo = hi THEN parts[lo]
    ELSE LET mid == (lo + hi) \div 2
         IN  FlattenRange(parts, lo, mid) \o FlattenRange(parts, mid + 1, hi)

Flatten(parts) == FlattenRange(parts, 1, Len(parts))

\* sep.join(parts) of Python: the parts with sep between consecutive ones.
Join(parts, sep) ==
    Flatten([i \in 1..Len(parts) |-> IF i = 1 THEN parts[i] ELSE sep \o parts[i]])

\* Python zip: as long as the shortest argument.
Zip3Len(a, b, c) == Min(Len(a), Min(Len(b), Len(c)))

(***************************************************************************)
(* Characters.                                                             *)
(***************************************************************************)
\* A character is its Unicode code point, 0..1114111, and a string is the
\* sequence of its characters.  The tables below are those of the
\* interpreter's Unicode database (version 14.0.0), one entry per code point
\* or run of code points; the case mappings below 128 are computed.
\* The code points c >= 128 whose title-case form, the first character of
\* str.capitalize(), is one other character: << first, last, step, to >>
\* stands for first, first + step, ..., last, the code point c mapped to
\* to + (c - first).
TitleRuns ==
    {
      << 181, 181, 1, 924 >>, << 224, 246, 1, 192 >>, << 248, 254, 1, 216 >>,
      << 255, 255, 1, 376 >>, << 257, 303, 2, 256 >>, << 305, 305, 1, 73 >>,
      << 307, 311, 2, 306 >>, << 314, 328, 2, 313 >>, << 331, 375, 2, 330 >>,
      << 378, 382, 2, 377 >>, << 383, 383, 1, 83 >>, << 384, 384, 1, 579 >>,
      << 387, 389, 2, 386 >>, << 392, 392, 1, 391 >>, << 396, 396, 1, 395 >>,
      << 402, 402, 1, 401 >>, << 405, 405, 1, 502 >>, << 409, 409, 1, 408 >>,
      << 410, 410, 1, 573 >>, << 414, 414, 1, 544 >>, << 417, 421, 2, 416 >>,
      << 424, 424, 1, 423 >>, << 429, 429, 1, 428 >>, << 432, 432, 1, 431 >>,
      << 436, 438, 2, 435 >>, << 441, 441, 1, 440 >>, << 445, 445, 1, 444 >>,
      << 447, 447, 1, 503 >>, << 452, 452, 1, 453 >>, << 454, 454, 1, 453 >>,
      << 455, 455, 1, 456 >>, << 457, 457, 1, 456 >>, << 458, 458, 1, 459 >>,
      << 460, 476, 2, 459 >>, << 477, 477, 1, 398 >>, << 479, 495, 2, 478 >>,
      << 497, 497, 1, 498 >>, << 499, 501, 2, 498 >>, << 505, 543, 2, 504 >>,
      << 547, 563, 2, 546 >>, << 572, 572, 1, 571 >>,
      << 575, 576, 1, 11390 >>, << 578, 578, 1, 577 >>,
      << 583, 591, 2, 582 >>, << 592, 592, 1, 11375 >>,
      << 593, 593, 1, 11373 >>, << 594, 594, 1, 11376 >>,
      << 595, 595, 1, 385 >>, << 596, 596, 1, 390 >>, << 598, 599, 1, 393 >>,
      << 601, 601, 1, 399 >>, << 603, 603, 1, 400 >>,
      << 604, 604, 1, 42923 >>, << 608, 608, 1, 403 >>,
      << 609, 609, 1, 42924 >>, << 611, 611, 1, 404 >>,
      << 613, 613, 1, 42893 >>, << 614, 614, 1, 42922 >>,
      << 616, 616, 1, 407 >>, << 617, 617, 1, 406 >>,
      << 618, 618, 1, 42926 >>, << 619, 619, 1, 11362 >>,
      << 620, 620, 1, 42925 >>, << 623, 623, 1, 412 >>,
      << 625, 625, 1, 11374 >>, << 626, 626, 1, 413 >>,
      << 629, 629, 1, 415 >>, << 637, 637, 1, 11364 >>,
      << 640, 640, 1, 422 >>, << 642, 642, 1, 42949 >>,
      << 643, 643, 1, 425 >>, << 647, 647, 1, 42929 >>,
      << 648, 648, 1, 430 >>, << 649, 649, 1, 580 >>, << 650, 651, 1, 433 >>,
      << 652, 652, 1, 581 >>, << 658, 658, 1, 439 >>,
      << 669, 669, 1, 42930 >>, << 670, 670, 1, 42928 >>,
      << 837, 837, 1, 921 >>, << 881, 883, 2, 880 >>, << 887, 887, 1, 886 >>,
      << 891, 893, 1, 1021 >>, << 940, 940, 1, 902 >>, << 941, 943, 1, 904 >>,
      << 945, 961, 1, 913 >>, << 962, 962, 1, 931 >>, << 963, 971, 1, 931 >>,
      << 972, 972, 1, 908 >>, << 973, 974, 1, 910 >>, << 976, 976, 1, 914 >>,
      << 977, 977, 1, 920 >>, << 981, 981, 1, 934 >>, << 982, 982, 1, 928 >>,
      << 983, 983, 1, 975 >>, << 985, 1007, 2, 984 >>,
      << 1008, 1008, 1, 922 >>, << 1009, 1009, 1, 929 >>,
      << 1010, 1010, 1, 1017 >>, << 1011, 1011, 1, 895 >>,
      << 1013, 1013, 1, 917 >>, << 1016, 1016, 1, 1015 >>,
      << 1019, 1019, 1, 1018 >>, << 1072, 1103, 1, 1040 >>,
      << 1104, 1119, 1, 1024 >>, << 1121, 1153, 2, 1120 >>,
      << 1163, 1215, 2, 1162 >>, << 1218, 1230, 2, 1217 >>,
      << 1231, 1231, 1, 1216 >>, << 1233, 1327, 2, 1232 >>,
      << 1377, 1414, 1, 1329 >>, << 5112, 5117, 1, 5104 >>,
      << 7296, 7296, 1, 1042 >>, << 7297, 7297, 1, 1044 >>,
      << 7298, 7298, 1, 1054 >>, << 7299, 7300, 1, 1057 >>,
      << 7301, 7301, 1, 1058 >>, << 7302, 7302, 1, 1066 >>,
      << 7303, 7303, 1, 1122 >>, << 7304, 7304, 1, 42570 >>,
      << 7545, 7545, 1, 42877 >>, << 7549, 7549, 1, 11363 >>,
      << 7566, 7566, 1, 42950 >>, << 7681, 7829, 2, 7680 >>,
      << 7835, 7835, 1, 7776 >>, << 7841, 7935, 2, 7840 >>,
      << 7936, 7943, 1, 7944 >>, << 7952, 7957, 1, 7960 >>,
      << 7968, 7975, 1, 7976 >>, << 7984, 7991, 1, 7992 >>,
      << 8000, 8005, 1, 8008 >>, << 8017, 8023, 2, 8025 >>,
      << 8032, 8039, 1, 8040 >>, << 8048, 8049, 1, 8122 >>,
      << 8050, 8053, 1, 8136 >>, << 8054, 8055, 1, 8154 >>,
      << 8056, 8057, 1, 8184 >>, << 8058, 8059, 1, 8170 >>,
      << 8060, 8061, 1, 8186 >>, << 8064, 8071, 1, 8072 >>,
      << 8080, 8087, 1, 8088 >>, << 8096, 8103, 1, 8104 >>,
      << 8112, 8113, 1, 8120 >>, << 8115, 8115, 1, 8124 >>,
      << 8126, 8126, 1, 921 >>, << 8131, 8131, 1, 8140 >>,
      << 8144, 8145, 1, 8152 >>, << 8160, 8161, 1, 8168 >>,
      << 8165, 8165, 1, 8172 >>, << 8179, 8179, 1, 8188 >>,
      << 8526, 8526, 1, 8498 >>, << 8560, 8575, 1, 8544 >>,
      << 8580, 8580, 1, 8579 >>, << 9424, 9449, 1, 9398 >>,
      << 11312, 11359, 1, 11264 >>, << 11361, 11361, 1, 11360 >>,
      << 11365, 11365, 1, 570 >>, << 11366, 11366, 1, 574 >>,
      << 11368, 11372, 2, 11367 >>, << 11379, 11379, 1, 11378 >>,
      << 11382, 11382, 1, 11381 >>, << 11393, 11491, 2, 11392 >>,
      << 11500, 11502, 2, 11499 >>, << 11507, 11507, 1, 11506 >>,
      << 11520, 11557, 1, 4256 >>, << 11559, 11559, 1, 4295 >>,
      << 11565, 11565, 1, 4301 >>, << 42561, 42605, 2, 42560 >>,
      << 42625, 42651, 2, 42624 >>, << 42787, 42799, 2, 42786 >>,
      << 42803, 42863, 2, 42802 >>, << 42874, 42876, 2, 42873 >>,
      << 42879, 42887, 2, 42878 >>, << 42892, 42892, 1, 42891 >>,
      << 42897, 42899, 2, 42896 >>, << 42900, 42900, 1, 42948 >>,
      << 42903, 42921, 2, 42902 >>, << 42933, 42947, 2, 42932 >>,
      << 42952, 42954, 2, 42951 >>, << 42961, 42961, 1, 42960 >>,
      << 42967, 42969, 2, 42966 >>, << 42998, 42998, 1, 42997 >>,
      << 43859, 43859, 1, 42931 >>, << 43888, 43967, 1, 5024 >>,
      << 65345, 65370, 1, 65313 >>, << 66600, 66639, 1, 66560 >>,
      << 66776, 66811, 1, 66736 >>, << 66967, 66977, 1, 66928 >>,
      << 66979, 66993, 1, 66940 >>, << 66995, 67001, 1, 66956 >>,
      << 67003, 67004, 1, 66964 >>, << 68800, 68850, 1, 68736 >>,
      << 71872, 71903, 1, 71840 >>, << 93792, 93823, 1, 93760 >>,
      << 125218, 125251, 1, 125184 >> }

\* The code points whose title-case form is two or three characters.
TitleSpecial ==
    {
      << 223, << 83, 115 >> >>, << 329, << 700, 78 >> >>,
      << 496, << 74, 780 >> >>, << 912, << 921, 776, 769 >> >>,
      << 944, << 933, 776, 769 >> >>, << 1415, << 1333, 1410 >> >>,
      << 7830, << 72, 817 >> >>, << 7831, << 84, 776 >> >>,
      << 7832, << 87, 778 >> >>, << 7833, << 89, 778 >> >>,
      << 7834, << 65, 702 >> >>, << 8016, << 933, 787 >> >>,
      << 8018, << 933, 787, 768 >> >>, << 8020, << 933, 787, 769 >> >>,
      << 8022, << 933, 787, 834 >> >>, << 8114, << 8122, 837 >> >>,
      << 8116, << 902, 837 >> >>, << 8118, << 913, 834 >> >>,
      << 8119, << 913, 834, 837 >> >>, << 8130, << 8138, 837 >> >>,
      << 8132, << 905, 837 >> >>, << 8134, << 919, 834 >> >>,
      << 8135, << 919, 834, 837 >> >>, << 8146, << 921, 776, 768 >> >>,
      << 8147, << 921, 776, 769 >> >>, << 8150, << 921, 834 >> >>,
      << 8151, << 921, 776, 834 >> >>, << 8162, << 933, 776, 768 >> >>,
      << 8163, << 933, 776, 769 >> >>, << 8164, << 929, 787 >> >>,
      << 8166, << 933, 834 >> >>, << 8167, << 933, 776, 834 >> >>,
      << 8178, << 8186, 837 >> >>, << 8180, << 911, 837 >> >>,
      << 8182, << 937, 834 >> >>, << 8183, << 937, 834, 837 >> >>,
      << 64256, << 70, 102 >> >>, << 64257, << 70, 105 >> >>,
      << 64258, << 70, 108 >> >>, << 64259, << 70, 102, 105 >> >>,
      << 64260, << 70, 102, 108 >> >>, << 64261, << 83, 116 >> >>,
      << 64262, << 83, 116 >> >>, << 64275, << 1348, 1398 >> >>,
      << 64276, << 1348, 1381 >> >>, << 64277, << 1348, 1387 >> >>,
      << 64278, << 1358, 1398 >> >>, << 64279, << 1348, 1389 >> >> }

\* The code points c >= 128 whose lower-case form, str.lower(), is one other
\* character, as << first, last, step, to >>.
LowerRuns ==
    {
      << 192, 214, 1, 224 >>, << 216, 222, 1, 248 >>, << 256, 302, 2, 257 >>,
      << 306, 310, 2, 307 >>, << 313, 327, 2, 314 >>, << 330, 374, 2, 331 >>,
      << 376, 376, 1, 255 >>, << 377, 381, 2, 378 >>, << 385, 385, 1, 595 >>,
      << 386, 388, 2, 387 >>, << 390, 390, 1, 596 >>, << 391, 391, 1, 392 >>,
      << 393, 394, 1, 598 >>, << 395, 395, 1, 396 >>, << 398, 398, 1, 477 >>,
      << 399, 399, 1, 601 >>, << 400, 400, 1, 603 >>, << 401, 401, 1, 402 >>,
      << 403, 403, 1, 608 >>, << 404, 404, 1, 611 >>, << 406, 406, 1, 617 >>,
      << 407, 407, 1, 616 >>, << 408, 408, 1, 409 >>, << 412, 412, 1, 623 >>,
      << 413, 413, 1, 626 >>, << 415, 415, 1, 629 >>, << 416, 420, 2, 417 >>,
      << 422, 422, 1, 640 >>, << 423, 423, 1, 424 >>, << 425, 425, 1, 643 >>,
      << 428, 428, 1, 429 >>, << 430, 430, 1, 648 >>, << 431, 431, 1, 432 >>,
      << 433, 434, 1, 650 >>, << 435, 437, 2, 436 >>, << 439, 439, 1, 658 >>,
      << 440, 440, 1, 441 >>, << 444, 444, 1, 445 >>, << 452, 452, 1, 454 >>,
      << 453, 453, 1, 454 >>, << 455, 455, 1, 457 >>, << 456, 456, 1, 457 >>,
      << 458, 458, 1, 460 >>, << 459, 475, 2, 460 >>, << 478, 494, 2, 479 >>,
      << 497, 497, 1, 499 >>, << 498, 500, 2, 499 >>, << 502, 502, 1, 405 >>,
      << 503, 503, 1, 447 >>, << 504, 542, 2, 505 >>, << 544, 544, 1, 414 >>,
      << 546, 562, 2, 547 >>, << 570, 570, 1, 11365 >>,
      << 571, 571, 1, 572 >>, << 573, 573, 1, 410 >>,
      << 574, 574, 1, 11366 >>, << 577, 577, 1, 578 >>,
      << 579, 579, 1, 384 >>, << 580, 580, 1, 649 >>, << 581, 581, 1, 652 >>,
      << 582, 590, 2, 583 >>, << 880, 882, 2, 881 >>, << 886, 886, 1, 887 >>,
      << 895, 895, 1, 1011 >>, << 902, 902, 1, 940 >>, << 904, 906, 1, 941 >>,
      << 908, 908, 1, 972 >>, << 910, 911, 1, 973 >>, << 913, 929, 1, 945 >>,
      << 931, 939, 1, 963 >>, << 975, 975, 1, 983 >>, << 984, 1006, 2, 985 >>,
      << 1012, 1012, 1, 952 >>, << 1015, 1015, 1, 1016 >>,
      << 1017, 1017, 1, 1010 >>, << 1018, 1018, 1, 1019 >>,
      << 1021, 1023, 1, 891 >>, << 1024, 1039, 1, 1104 >>,
      << 1040, 1071, 1, 1072 >>, << 1120, 1152, 2, 1121 >>,
      << 1162, 1214, 2, 1163 >>, << 1216, 1216, 1, 1231 >>,
      << 1217, 1229, 2, 1218 >>, << 1232, 1326, 2, 1233 >>,
      << 1329, 1366, 1, 1377 >>, << 4256, 4293, 1, 11520 >>,
      << 4295, 4295, 1, 11559 >>, << 4301, 4301, 1, 11565 >>,
      << 5024, 5103, 1, 43888 >>, << 5104, 5109, 1, 5112 >>,
      << 7312, 7354, 1, 4304 >>, << 7357, 7359, 1, 4349 >>,
      << 7680, 7828, 2, 7681 >>, << 7838, 7838, 1, 223 >>,
      << 7840, 7934, 2, 7841 >>, << 7944, 7951, 1, 7936 >>,
      << 7960, 7965, 1, 7952 >>, << 7976, 7983, 1, 7968 >>,
      << 7992, 7999, 1, 7984 >>, << 8008, 8013, 1, 8000 >>,
      << 8025, 8031, 2, 8017 >>, << 8040, 8047, 1, 8032 >>,
      << 8072, 8079, 1, 8064 >>, << 8088, 8095, 1, 8080 >>,
      << 8104, 8111, 1, 8096 >>, << 8120, 8121, 1, 8112 >>,
      << 8122, 8123, 1, 8048 >>, << 8124, 8124, 1, 8115 >>,
      << 8136, 8139, 1, 8050 >>, << 8140, 8140, 1, 8131 >>,
      << 8152, 8153, 1, 8144 >>, << 8154, 8155, 1, 8054 >>,
      << 8168, 8169, 1, 8160 >>, << 8170, 8171, 1, 8058 >>,
      << 8172, 8172, 1, 8165 >>, << 8184, 8185, 1, 8056 >>,
      << 8186, 8187, 1, 8060 >>, << 8188, 8188, 1, 8179 >>,
      << 8486, 8486, 1, 969 >>, << 8490, 8490, 1, 107 >>,
      << 8491, 8491, 1, 229 >>, << 8498, 8498, 1, 8526 >>,
      << 8544, 8559, 1, 8560 >>, << 8579, 8579, 1, 8580 >>,
      << 9398, 9423, 1, 9424 >>, << 11264, 11311, 1, 11312 >>,
      << 11360, 11360, 1, 11361 >>, << 11362, 11362, 1, 619 >>,
      << 11363, 11363, 1, 7549 >>, << 11364, 11364, 1, 637 >>,
      << 11367, 11371, 2, 11368 >>, << 11373, 11373, 1, 593 >>,
      << 11374, 11374, 1, 625 >>, << 11375, 11375, 1, 592 >>,
      << 11376, 11376, 1, 594 >>, << 11378, 11378, 1, 11379 >>,
      << 11381, 11381, 1, 11382 >>, << 11390, 11391, 1, 575 >>,
      << 11392, 11490, 2, 11393 >>, << 11499, 11501, 2, 11500 >>,
      << 11506, 11506, 1, 11507 >>, << 42560, 42604, 2, 42561 >>,
      << 42624, 42650, 2, 42625 >>, << 42786, 42798, 2, 42787 >>,
      << 42802, 42862, 2, 42803 >>, << 42873, 42875, 2, 42874 >>,
      << 42877, 42877, 1, 7545 >>, << 42878, 42886, 2, 42879 >>,
      << 42891, 42891, 1, 42892 >>, << 42893, 42893, 1, 613 >>,
      << 42896, 42898, 2, 42897 >>, << 42902, 42920, 2, 42903 >>,
      << 42922, 42922, 1, 614 >>, << 42923, 42923, 1, 604 >>,
      << 42924, 42924, 1, 609 >>, << 42925, 42925, 1, 620 >>,
      << 42926, 42926, 1, 618 >>, << 42928, 42928, 1, 670 >>,
      << 42929, 42929, 1, 647 >>, << 42930, 42930, 1, 669 >>,
      << 42931, 42931, 1, 43859 >>, << 42932, 42946, 2, 42933 >>,
      << 42948, 42948, 1, 42900 >>, << 42949, 42949, 1, 642 >>,
      << 42950, 42950, 1, 7566 >>, << 42951, 42953, 2, 42952 >>,
      << 42960, 42960, 1, 42961 >>, << 42966, 42968, 2, 42967 >>,
      << 42997, 42997, 1, 42998 >>, << 65313, 65338, 1, 65345 >>,
      << 66560, 66599, 1, 66600 >>, << 66736, 66771, 1, 66776 >>,
      << 66928, 66938, 1, 66967 >>, << 66940, 66954, 1, 66979 >>,
      << 66956, 66962, 1, 66995 >>, << 66964, 66965, 1, 67003 >>,
      << 68736, 68786, 1, 68800 >>, << 71840, 71871, 1, 71872 >>,
      << 93760, 93791, 1, 93792 >>, << 125184, 125217, 1, 125218 >> }

\* The code points whose lower-case form is two characters.
LowerSpecial ==
    {
      << 304, << 105, 775 >> >> }

\* The characters that str.isspace(), str.strip() and the pattern \s take for
\* whitespace.
SpaceChars ==
    {
      9, 10, 11, 12, 13, 28, 29, 30, 31, 32, 133, 160, 5760, 8192, 8193, 8194,
      8195, 8196, 8197, 8198, 8199, 8200, 8201, 8202, 8232, 8233, 8239, 8287,
      12288 }

\* The code points that str.isprintable() refuses, as the ascending bounds
\* of their ranges: first1, last1 + 1, first2, last2 + 1, ...
UnprintableBounds ==
    <<
      0, 32, 127, 161, 173, 174, 888, 890, 896, 900, 907, 908, 909, 910, 930,
      931, 1328, 1329, 1367, 1369, 1419, 1421, 1424, 1425, 1480, 1488, 1515,
      1519, 1525, 1542, 1564, 1565, 1757, 1758, 1806, 1808, 1867, 1869, 1970,
      1984, 2043, 2045, 2094, 2096, 2111, 2112, 2140, 2142, 2143, 2144, 2155,
      2160, 2191, 2200, 2274, 2275, 2436, 2437, 2445, 2447, 2449, 2451, 2473,
      2474, 2481, 2482, 2483, 2486, 2490, 2492, 2501, 2503, 2505, 2507, 2511,
      2519, 2520, 2524, 2526, 2527, 2532, 2534, 2559, 2561, 2564, 2565, 2571,
      2575, 2577, 2579, 2601, 2602, 2609, 2610, 2612, 2613, 2615, 2616, 2618,
      2620, 2621, 2622, 2627, 2631, 2633, 2635, 2638, 2641, 2642, 2649, 2653,
      2654, 2655, 2662, 2679, 2689, 2692, 2693, 2702, 2703, 2706, 2707, 2729,
      2730, 2737, 2738, 2740, 2741, 2746, 2748, 2758, 2759, 2762, 2763, 2766,
      2768, 2769, 2784, 2788, 2790, 2802, 2809, 2816, 2817, 2820, 2821, 2829,
      2831, 2833, 2835, 2857, 2858, 2865, 2866, 2868, 2869, 2874, 2876, 2885,
      2887, 2889, 2891, 2894, 2901, 2904, 2908, 2910, 2911, 2916, 2918, 2936,
      2946, 2948, 2949, 2955, 2958, 2961, 2962, 2966, 2969, 2971, 2972, 2973,
      2974, 2976, 2979, 2981, 2984, 2987, 2990, 3002, 3006, 3011, 3014, 3017,
      3018, 3022, 3024, 3025, 3031, 3032, 3046, 3067, 3072, 3085, 3086, 3089,
      3090, 3113, 3114, 3130, 3132, 3141, 3142, 3145, 3146, 3150, 3157, 3159,
      3160, 3163, 3165, 3166, 3168, 3172, 3174, 3184, 3191, 3213, 3214, 3217,
      3218, 3241, 3242, 3252, 3253, 3258, 3260, 3269, 3270, 3273, 3274, 3278,
      3285, 3287, 3293, 3295, 3296, 3300, 3302, 3312, 3313, 3315, 3328, 3341,
      3342, 3345, 3346, 3397, 3398, 3401, 3402, 3408, 3412, 3428, 3430, 3456,
      3457, 3460, 3461, 3479, 3482, 3506, 3507, 3516, 3517, 3518, 3520, 3527,
      3530, 3531, 3535, 3541, 3542, 3543, 3544, 3552, 3558, 3568, 3570, 3573,
      3585, 3643, 3647, 3676, 3713, 3715, 3716, 3717, 3718, 3723, 3724, 3748,
      3749, 3750, 3751, 3774, 3776, 3781, 3782, 3783, 3784, 3790, 3792, 3802,
      3804, 3808, 3840, 3912, 3913, 3949, 3953, 3992, 3993, 4029, 4030, 4045,
      4046, 4059, 4096, 4294, 4295, 4296, 4301, 4302, 4304, 4681, 4682, 4686,
      4688, 4695, 4696, 4697, 4698, 4702, 4704, 4745, 4746, 4750, 4752, 4785,
      4786, 4790, 4792, 4799, 4800, 4801, 4802, 4806, 4808, 4823, 4824, 4881,
      4882, 4886, 4888, 4955, 4957, 4989, 4992, 5018, 5024, 5110, 5112, 5118,
      5120, 5760, 5761, 5789, 5792, 5881, 5888, 5910, 5919, 5943, 5952, 5972,
      5984, 5997, 5998, 6001, 6002, 6004, 6016, 6110, 6112, 6122, 6128, 6138,
      6144, 6158, 6159, 6170, 6176, 6265, 6272, 6315, 6320, 6390, 6400, 6431,
      6432, 6444, 6448, 6460, 6464, 6465, 6468, 6510, 6512, 6517, 6528, 6572,
      6576, 6602, 6608, 6619, 6622, 6684, 6686, 6751, 6752, 6781, 6783, 6794,
      6800, 6810, 6816, 6830, 6832, 6863, 6912, 6989, 6992, 7039, 7040, 7156,
      7164, 7224, 7227, 7242, 7245, 7305, 7312, 7355, 7357, 7368, 7376, 7419,
      7424, 7958, 7960, 7966, 7968, 8006, 8008, 8014, 8016, 8024, 8025, 8026,
      8027, 8028, 8029, 8030, 8031, 8062, 8064, 8117, 8118, 8133, 8134, 8148,
      8150, 8156, 8157, 8176, 8178, 8181, 8182, 8191, 8208, 8232, 8240, 8287,
      8304, 8306, 8308, 8335, 8336, 8349, 8352, 8385, 8400, 8433, 8448, 8588,
      8592, 9255, 9280, 9291, 9312, 11124, 11126, 11158, 11159, 11508, 11513,
      11558, 11559, 11560, 11565, 11566, 11568, 11624, 11631, 11633, 11647,
      11671, 11680, 11687, 11688, 11695, 11696, 11703, 11704, 11711, 11712,
      11719, 11720, 11727, 11728, 11735, 11736, 11743, 11744, 11870, 11904,
      11930, 11931, 12020, 12032, 12246, 12272, 12284, 12289, 12352, 12353,
      12439, 12441, 12544, 12549, 12592, 12593, 12687, 12688, 12772, 12784,
      12831, 12832, 42125, 42128, 42183, 42192, 42540, 42560, 42744, 42752,
      42955, 42960, 42962, 42963, 42964, 42965, 42970, 42994, 43053, 43056,
      43066, 43072, 43128, 43136, 43206, 43214, 43226, 43232, 43348, 43359,
      43389, 43392, 43470, 43471, 43482, 43486, 43519, 43520, 43575, 43584,
      43598, 43600, 43610, 43612, 43715, 43739, 43767, 43777, 43783, 43785,
      43791, 43793, 43799, 43808, 43815, 43816, 43823, 43824, 43884, 43888,
      44014, 44016, 44026, 44032, 55204, 55216, 55239, 55243, 55292, 63744,
      64110, 64112, 64218, 64256, 64263, 64275, 64280, 64285, 64311, 64312,
      64317, 64318, 64319, 64320, 64322, 64323, 64325, 64326, 64451, 64467,
      64912, 64914, 64968, 64975, 64976, 65008, 65050, 65056, 65107, 65108,
      65127, 65128, 65132, 65136, 65141, 65142, 65277, 65281, 65471, 65474,
      65480, 65482, 65488, 65490, 65496, 65498, 65501, 65504, 65511, 65512,
      65519, 65532, 65534, 65536, 65548, 65549, 65575, 65576, 65595, 65596,
      65598, 65599, 65614, 65616, 65630, 65664, 65787, 65792, 65795, 65799,
      65844, 65847, 65935, 65936, 65949, 65952, 65953, 66000, 66046, 66176,
      66205, 66208, 66257, 66272, 66300, 66304, 66340, 66349, 66379, 66384,
      66427, 66432, 66462, 66463, 66500, 66504, 66518, 66560, 66718, 66720,
      66730, 66736, 66772, 66776, 66812, 66816, 66856, 66864, 66916, 66927,
      66939, 66940, 66955, 66956, 66963, 66964, 66966, 66967, 66978, 66979,
      66994, 66995, 67002, 67003, 67005, 67072, 67383, 67392, 67414, 67424,
      67432, 67456, 67462, 67463, 67505, 67506, 67515, 67584, 67590, 67592,
      67593, 67594, 67638, 67639, 67641, 67644, 67645, 67647, 67670, 67671,
      67743, 67751, 67760, 67808, 67827, 67828, 67830, 67835, 67868, 67871,
      67898, 67903, 67904, 67968, 68024, 68028, 68048, 68050, 68100, 68101,
      68103, 68108, 68116, 68117, 68120, 68121, 68150, 68152, 68155, 68159,
      68169, 68176, 68185, 68192, 68256, 68288, 68327, 68331, 68343, 68352,
      68406, 68409, 68438, 68440, 68467, 68472, 68498, 68505, 68509, 68521,
      68528, 68608, 68681, 68736, 68787, 68800, 68851, 68858, 68904, 68912,
      68922, 69216, 69247, 69248, 69290, 69291, 69294, 69296, 69298, 69376,
      69416, 69424, 69466, 69488, 69514, 69552, 69580, 69600, 69623, 69632,
      69710, 69714, 69750, 69759, 69821, 69822, 69827, 69840, 69865, 69872,
      69882, 69888, 69941, 69942, 69960, 69968, 70007, 70016, 70112, 70113,
      70133, 70144, 70162, 70163, 70207, 70272, 70279, 70280, 70281, 70282,
      70286, 70287, 70302, 70303, 70314, 70320, 70379, 70384, 70394, 70400,
      70404, 70405, 70413, 70415, 70417, 70419, 70441, 70442, 70449, 70450,
      70452, 70453, 70458, 70459, 70469, 70471, 70473, 70475, 70478, 70480,
      70481, 70487, 70488, 70493, 70500, 70502, 70509, 70512, 70517, 70656,
      70748, 70749, 70754, 70784, 70856, 70864, 70874, 71040, 71094, 71096,
      71134, 71168, 71237, 71248, 71258, 71264, 71277, 71296, 71354, 71360,
      71370, 71424, 71451, 71453, 71468, 71472, 71495, 71680, 71740, 71840,
      71923, 71935, 71943, 71945, 71946, 71948, 71956, 71957, 71959, 71960,
      71990, 71991, 71993, 71995, 72007, 72016, 72026, 72096, 72104, 72106,
      72152, 72154, 72165, 72192, 72264, 72272, 72355, 72368, 72441, 72704,
      72713, 72714, 72759, 72760, 72774, 72784, 72813, 72816, 72848, 72850,
      72872, 72873, 72887, 72960, 72967, 72968, 72970, 72971, 73015, 73018,
      73019, 73020, 73022, 73023, 73032, 73040, 73050, 73056, 73062, 73063,
      73065, 73066, 73103, 73104, 73106, 73107, 73113, 73120, 73130, 73440,
      73465, 73648, 73649, 73664, 73714, 73727, 74650, 74752, 74863, 74864,
      74869, 74880, 75076, 77712, 77811, 77824, 78895, 82944, 83527, 92160,
      92729, 92736, 92767, 92768, 92778, 92782, 92863, 92864, 92874, 92880,
      92910, 92912, 92918, 92928, 92998, 93008, 93018, 93019, 93026, 93027,
      93048, 93053, 93072, 93760, 93851, 93952, 94027, 94031, 94088, 94095,
      94112, 94176, 94181, 94192, 94194, 94208, 100344, 100352, 101590,
      101632, 101641, 110576, 110580, 110581, 110588, 110589, 110591, 110592,
      110883, 110928, 110931, 110948, 110952, 110960, 111356, 113664, 113771,
      113776, 113789, 113792, 113801, 113808, 113818, 113820, 113824, 118528,
      118574, 118576, 118599, 118608, 118724, 118784, 119030, 119040, 119079,
      119081, 119155, 119163, 119275, 119296, 119366, 119520, 119540, 119552,
      119639, 119648, 119673, 119808, 119893, 119894, 119965, 119966, 119968,
      119970, 119971, 119973, 119975, 119977, 119981, 119982, 119994, 119995,
      119996, 119997, 120004, 120005, 120070, 120071, 120075, 120077, 120085,
      120086, 120093, 120094, 120122, 120123, 120127, 120128, 120133, 120134,
      120135, 120138, 120145, 120146, 120486, 120488, 120780, 120782, 121484,
      121499, 121504, 121505, 121520, 122624, 122655, 122880, 122887, 122888,
      122905, 122907, 122914, 122915, 122917, 122918, 122923, 123136, 123181,
      123184, 123198, 123200, 123210, 123214, 123216, 123536, 123567, 123584,
      123642, 123647, 123648, 124896, 124903, 124904, 124908, 124909, 124911,
      124912, 124927, 124928, 125125, 125127, 125143, 125184, 125260, 125264,
      125274, 125278, 125280, 126065, 126133, 126209, 126270, 126464, 126468,
      126469, 126496, 126497, 126499, 126500, 126501, 126503, 126504, 126505,
      126515, 126516, 126520, 126521, 126522, 126523, 126524, 126530, 126531,
      126535, 126536, 126537, 126538, 126539, 126540, 126541, 126544, 126545,
      126547, 126548, 126549, 126551, 126552, 126553, 126554, 126555, 126556,
      126557, 126558, 126559, 126560, 126561, 126563, 126564, 126565, 126567,
      126571, 126572, 126579, 126580, 126584, 126585, 126589, 126590, 126591,
      126592, 126602, 126603, 126620, 126625, 126628, 126629, 126634, 126635,
      126652, 126704, 126706, 126976, 127020, 127024, 127124, 127136, 127151,
      127153, 127168, 127169, 127184, 127185, 127222, 127232, 127406, 127462,
      127491, 127504, 127548, 127552, 127561, 127568, 127570, 127584, 127590,
      127744, 128728, 128733, 128749, 128752, 128765, 128768, 128884, 128896,
      128985, 128992, 129004, 129008, 129009, 129024, 129036, 129040, 129096,
      129104, 129114, 129120, 129160, 129168, 129198, 129200, 129202, 129280,
      129620, 129632, 129646, 129648, 129653, 129656, 129661, 129664, 129671,
      129680, 129709, 129712, 129723, 129728, 129734, 129744, 129754, 129760,
      129768, 129776, 129783, 129792, 129939, 129940, 129995, 130032, 130042,
      131072, 173792, 173824, 177977, 177984, 178206, 178208, 183970, 183984,
      191457, 194560, 195102, 196608, 201547, 917760, 918000, 1114112 >>

\* The code points that the test for a final sigma skips (case-ignorable),
\* as the ascending bounds of their ranges.
CaseIgnorableBounds ==
    <<
      39, 40, 46, 47, 58, 59, 94, 95, 96, 97, 168, 169, 173, 174, 175, 176,
      180, 181, 183, 185, 688, 880, 884, 886, 890, 891, 900, 902, 903, 904,
      1155, 1162, 1369, 1370, 1375, 1376, 1425, 1470, 1471, 1472, 1473, 1475,
      1476, 1478, 1479, 1480, 1524, 1525, 1536, 1542, 1552, 1563, 1564, 1565,
      1600, 1601, 1611, 1632, 1648, 1649, 1750, 1758, 1759, 1769, 1770, 1774,
      1807, 1808, 1809, 1810, 1840, 1867, 1958, 1969, 2027, 2038, 2042, 2043,
      2045, 2046, 2070, 2094, 2137, 2140, 2184, 2185, 2192, 2194, 2200, 2208,
      2249, 2307, 2362, 2363, 2364, 2365, 2369, 2377, 2381, 2382, 2385, 2392,
      2402, 2404, 2417, 2418, 2433, 2434, 2492, 2493, 2497, 2501, 2509, 2510,
      2530, 2532, 2558, 2559, 2561, 2563, 2620, 2621, 2625, 2627, 2631, 2633,
      2635, 2638, 2641, 2642, 2672, 2674, 2677, 2678, 2689, 2691, 2748, 2749,
      2753, 2758, 2759, 2761, 2765, 2766, 2786, 2788, 2810, 2816, 2817, 2818,
      2876, 2877, 2879, 2880, 2881, 2885, 2893, 2894, 2901, 2903, 2914, 2916,
      2946, 2947, 3008, 3009, 3021, 3022, 3072, 3073, 3076, 3077, 3132, 3133,
      3134, 3137, 3142, 3145, 3146, 3150, 3157, 3159, 3170, 3172, 3201, 3202,
      3260, 3261, 3263, 3264, 3270, 3271, 3276, 3278, 3298, 3300, 3328, 3330,
      3387, 3389, 3393, 3397, 3405, 3406, 3426, 3428, 3457, 3458, 3530, 3531,
      3538, 3541, 3542, 3543, 3633, 3634, 3636, 3643, 3654, 3663, 3761, 3762,
      3764, 3773, 3782, 3783, 3784, 3790, 3864, 3866, 3893, 3894, 3895, 3896,
      3897, 3898, 3953, 3967, 3968, 3973, 3974, 3976, 3981, 3992, 3993, 4029,
      4038, 4039, 4141, 4145, 4146, 4152, 4153, 4155, 4157, 4159, 4184, 4186,
      4190, 4193, 4209, 4213, 4226, 4227, 4229, 4231, 4237, 4238, 4253, 4254,
      4348, 4349, 4957, 4960, 5906, 5909, 5938, 5940, 5970, 5972, 6002, 6004,
      6068, 6070, 6071, 6078, 6086, 6087, 6089, 6100, 6103, 6104, 6109, 6110,
      6155, 6160, 6211, 6212, 6277, 6279, 6313, 6314, 6432, 6435, 6439, 6441,
      6450, 6451, 6457, 6460, 6679, 6681, 6683, 6684, 6742, 6743, 6744, 6751,
      6752, 6753, 6754, 6755, 6757, 6765, 6771, 6781, 6783, 6784, 6823, 6824,
      6832, 6863, 6912, 6916, 6964, 6965, 6966, 6971, 6972, 6973, 6978, 6979,
      7019, 7028, 7040, 7042, 7074, 7078, 7080, 7082, 7083, 7086, 7142, 7143,
      7144, 7146, 7149, 7150, 7151, 7154, 7212, 7220, 7222, 7224, 7288, 7294,
      7376, 7379, 7380, 7393, 7394, 7401, 7405, 7406, 7412, 7413, 7416, 7418,
      7468, 7531, 7544, 7545, 7579, 7680, 8125, 8126, 8127, 8130, 8141, 8144,
      8157, 8160, 8173, 8176, 8189, 8191, 8203, 8208, 8216, 8218, 8228, 8229,
      8231, 8232, 8234, 8239, 8288, 8293, 8294, 8304, 8305, 8306, 8319, 8320,
      8336, 8349, 8400, 8433, 11388, 11390, 11503, 11506, 11631, 11632, 11647,
      11648, 11744, 11776, 11823, 11824, 12293, 12294, 12330, 12334, 12337,
      12342, 12347, 12348, 12441, 12447, 12540, 12543, 40981, 40982, 42232,
      42238, 42508, 42509, 42607, 42611, 42612, 42622, 42623, 42624, 42652,
      42656, 42736, 42738, 42752, 42786, 42864, 42865, 42888, 42891, 42994,
      42997, 43000, 43002, 43010, 43011, 43014, 43015, 43019, 43020, 43045,
      43047, 43052, 43053, 43204, 43206, 43232, 43250, 43263, 43264, 43302,
      43310, 43335, 43346, 43392, 43395, 43443, 43444, 43446, 43450, 43452,
      43454, 43471, 43472, 43493, 43495, 43561, 43567, 43569, 43571, 43573,
      43575, 43587, 43588, 43596, 43597, 43632, 43633, 43644, 43645, 43696,
      43697, 43698, 43701, 43703, 43705, 43710, 43712, 43713, 43714, 43741,
      43742, 43756, 43758, 43763, 43765, 43766, 43767, 43867, 43872, 43881,
      43884, 44005, 44006, 44008, 44009, 44013, 44014, 64286, 64287, 64434,
      64451, 65024, 65040, 65043, 65044, 65056, 65072, 65106, 65107, 65109,
      65110, 65279, 65280, 65287, 65288, 65294, 65295, 65306, 65307, 65342,
      65343, 65344, 65345, 65392, 65393, 65438, 65440, 65507, 65508, 65529,
      65532, 66045, 66046, 66272, 66273, 66422, 66427, 67456, 67462, 67463,
      67505, 67506, 67515, 68097, 68100, 68101, 68103, 68108, 68112, 68152,
      68155, 68159, 68160, 68325, 68327, 68900, 68904, 69291, 69293, 69446,
      69457, 69506, 69510, 69633, 69634, 69688, 69703, 69744, 69745, 69747,
      69749, 69759, 69762, 69811, 69815, 69817, 69819, 69821, 69822, 69826,
      69827, 69837, 69838, 69888, 69891, 69927, 69932, 69933, 69941, 70003,
      70004, 70016, 70018, 70070, 70079, 70089, 70093, 70095, 70096, 70191,
      70194, 70196, 70197, 70198, 70200, 70206, 70207, 70367, 70368, 70371,
      70379, 70400, 70402, 70459, 70461, 70464, 70465, 70502, 70509, 70512,
      70517, 70712, 70720, 70722, 70725, 70726, 70727, 70750, 70751, 70835,
      70841, 70842, 70843, 70847, 70849, 70850, 70852, 71090, 71094, 71100,
      71102, 71103, 71105, 71132, 71134, 71219, 71227, 71229, 71230, 71231,
      71233, 71339, 71340, 71341, 71342, 71344, 71350, 71351, 71352, 71453,
      71456, 71458, 71462, 71463, 71468, 71727, 71736, 71737, 71739, 71995,
      71997, 71998, 71999, 72003, 72004, 72148, 72152, 72154, 72156, 72160,
      72161, 72193, 72203, 72243, 72249, 72251, 72255, 72263, 72264, 72273,
      72279, 72281, 72284, 72330, 72343, 72344, 72346, 72752, 72759, 72760,
      72766, 72767, 72768, 72850, 72872, 72874, 72881, 72882, 72884, 72885,
      72887, 73009, 73015, 73018, 73019, 73020, 73022, 73023, 73030, 73031,
      73032, 73104, 73106, 73109, 73110, 73111, 73112, 73459, 73461, 78896,
      78905, 92912, 92917, 92976, 92983, 92992, 92996, 94031, 94032, 94095,
      94112, 94176, 94178, 94179, 94181, 110576, 110580, 110581, 110588,
      110589, 110591, 113821, 113823, 113824, 113828, 118528, 118574, 118576,
      118599, 119143, 119146, 119155, 119171, 119173, 119180, 119210, 119214,
      119362, 119365, 121344, 121399, 121403, 121453, 121461, 121462, 121476,
      121477, 121499, 121504, 121505, 121520, 122880, 122887, 122888, 122905,
      122907, 122914, 122915, 122917, 122918, 122923, 123184, 123198, 123566,
      123567, 123628, 123632, 125136, 125143, 125252, 125260, 127995, 128000,
      917505, 917506, 917536, 917632, 917760, 918000 >>

\* The cased code points that the test for a final sigma does not skip, as
\* the ascending bounds of their ranges.
CasedBounds ==
    <<
      65, 91, 97, 123, 170, 171, 181, 182, 186, 187, 192, 215, 216, 247, 248,
      443, 444, 448, 452, 660, 661, 688, 880, 884, 886, 888, 891, 894, 895,
      896, 902, 903, 904, 907, 908, 909, 910, 930, 931, 1014, 1015, 1154,
      1162, 1328, 1329, 1367, 1376, 1417, 4256, 4294, 4295, 4296, 4301, 4302,
      4304, 4347, 4349, 4352, 5024, 5110, 5112, 5118, 7296, 7305, 7312, 7355,
      7357, 7360, 7424, 7468, 7531, 7544, 7545, 7579, 7680, 7958, 7960, 7966,
      7968, 8006, 8008, 8014, 8016, 8024, 8025, 8026, 8027, 8028, 8029, 8030,
      8031, 8062, 8064, 8117, 8118, 8125, 8126, 8127, 8130, 8133, 8134, 8141,
      8144, 8148, 8150, 8156, 8160, 8173, 8178, 8181, 8182, 8189, 8450, 8451,
      8455, 8456, 8458, 8468, 8469, 8470, 8473, 8478, 8484, 8485, 8486, 8487,
      8488, 8489, 8490, 8494, 8495, 8501, 8505, 8506, 8508, 8512, 8517, 8522,
      8526, 8527, 8544, 8576, 8579, 8581, 9398, 9450, 11264, 11388, 11390,
      11493, 11499, 11503, 11506, 11508, 11520, 11558, 11559, 11560, 11565,
      11566, 42560, 42606, 42624, 42652, 42786, 42864, 42865, 42888, 42891,
      42895, 42896, 42955, 42960, 42962, 42963, 42964, 42965, 42970, 42997,
      42999, 43002, 43003, 43824, 43867, 43872, 43881, 43888, 43968, 64256,
      64263, 64275, 64280, 65313, 65339, 65345, 65371, 66560, 66640, 66736,
      66772, 66776, 66812, 66928, 66939, 66940, 66955, 66956, 66963, 66964,
      66966, 66967, 66978, 66979, 66994, 66995, 67002, 67003, 67005, 68736,
      68787, 68800, 68851, 71840, 71904, 93760, 93824, 119808, 119893, 119894,
      119965, 119966, 119968, 119970, 119971, 119973, 119975, 119977, 119981,
      119982, 119994, 119995, 119996, 119997, 120004, 120005, 120070, 120071,
      120075, 120077, 120085, 120086, 120093, 120094, 120122, 120123, 120127,
      120128, 120133, 120134, 120135, 120138, 120145, 120146, 120486, 120488,
      120513, 120514, 120539, 120540, 120571, 120572, 120597, 120598, 120629,
      120630, 120655, 120656, 120687, 120688, 120713, 120714, 120745, 120746,
      120771, 120772, 120780, 122624, 122634, 122635, 122655, 125184, 125252,
      127280, 127306, 127312, 127338, 127344, 127370 >>

\* The image of c in a table of runs and a table of special cases, << c >>
\* when c is in neither.
MapChar(c, runs, special) ==
    LET hit == { r \in runs : r[1] <= c /\ c <= r[2] /\ (c - r[1]) % r[3] = 0 }
        sp == { p \in special : p[1] = c }
        run == CHOOSE r \in hit : TRUE
    IN  IF hit /= { } THEN << run[4] + (c - run[1]) >>
        ELSE IF sp /= { } THEN (CHOOSE p \in sp : TRUE)[2]
        ELSE << c >>

\* c is in one of the ranges first1..last1, first2..last2, ... given by their
\* ascending bounds first1, last1 + 1, first2, last2 + 1, ...
InRanges(c, bounds) ==
    Cardinality({ i \in 1..Len(bounds) : bounds[i] <= c }) % 2 = 1

\* The first character of str.capitalize(): its title-case form, which can be
\* up to three characters.  Below 128 the letters a..z (97..122) become A..Z
\* (65..90) and nothing else changes.
ToUpper(c) ==
    IF c < 128 THEN << IF 97 <= c /\ c <= 122 THEN c - 32 ELSE c >>
    ELSE MapChar(c, TitleRuns, TitleSpecial)
\* The lower-case form of c, which can be two characters.  Below 128 the
\* letters A..Z become a..z and nothing else changes.
ToLower(c) ==
    IF c < 128 THEN << IF 65 <= c /\ c <= 90 THEN c + 32 ELSE c >>
    ELSE MapChar(c, LowerRuns, LowerSpecial)

IsSpace(c) == c \in SpaceChars
\* str.isprintable() of c; below 128 the printable characters are 32..126.
IsPrintable(c) ==
    IF c < 128 THEN 32 <= c /\ c <= 126 ELSE ~InRanges(c, UnprintableBounds)
IsCaseIgnorable(c) == InRanges(c, CaseIgnorableBounds)
\* Asked only of a character that is not case-ignorable.
IsCased(c) == InRanges(c, CasedBounds)

\* The capital sigma s[i] is final: the nearest character before it that is
\* not case-ignorable exists and is cased, and the nearest one after it does
\* not exist or is not cased.
FinalSigma(s, i) ==
    LET before == { j \in 1..(i - 1) : ~IsCaseIgnorable(s[j]) }
        after == { j \in (i + 1)..Len(s) : ~IsCaseIgnorable(s[j]) }
        last_before == CHOOSE j \in before : \A k \in before : k <= j
        first_after == CHOOSE j \in after : \A k \in after : j <= k
    IN  /\ before /= { } /\ IsCased(s[last_before])
        /\ after = { } \/ ~IsCased(s[first_after])

\* The lower-case form of s[i] in s: a capital sigma (931) becomes the final
\* small sigma (962) or the small sigma (963).
LowerAt(s, i) ==
    IF s[i] = 931 THEN << IF FinalSigma(s, i) THEN 962 ELSE 963 >>
    ELSE ToLower(s[i])

\* str.capitalize(): first character title-cased, all the others lower-cased.
Capitalize(s) ==
    Flatten([i \in 1..Len(s) |-> IF i = 1 THEN ToUpper(s[i]) ELSE LowerAt(s, i)])

RECURSIVE SkipSpaces(_, _)
\* The first index >= i of s that holds no whitespace (Len(s)+1 at the end).
SkipSpaces(s, i) ==
    IF i <= Len(s) /\ IsSpace(s[i]) THEN SkipSpaces(s, i + 1) ELSE i

RECURSIVE LastNonSpace(_, _)
LastNonSpace(s, i) ==
    IF i >= 1 /\ IsSpace(s[i]) THEN LastNonSpace(s, i - 1) ELSE i

\* str.strip()
Strip(s) == SubSeq(s, SkipSpaces(s, 1), LastNonSpace(s, Len(s)))

\* re.sub(r"[...]", "", s) for a character class.
RemoveChars(s, class) == SelectSeq(s, LAMBDA c : c \notin class)

ReplaceChar(s, from, to) == [i \in 1..Len(s) |-> IF s[i] = from THEN to ELSE s[i]]

\* re.sub(r"\s*X\s*", repl, s): every X, with the run of whitespace before it
\* and the run after it, is replaced by repl (leftmost, greedy: whitespace
\* between two X belongs to the first match, and is dropped either way).
SubSpaced(s, x, repl) ==
    LET absorbed(i) ==
            /\ IsSpace(s[i])
            /\ \/ LET j == SkipSpaces(s, i) IN j <= Len(s) /\ s[j] = x
               \/ LET j == LastNonSpace(s, i) IN j >= 1 /\ s[j] = x
    IN  Flatten([i \in 1..Len(s) |->
                    IF s[i] = x THEN repl
                    ELSE IF absorbed(i) THEN << >> ELSE << s[i] >>])

\* The index of the first period (46) of s at or after i, Len(s)+1 when none.
NextPeriod(s, i) ==
    IF \E j \in i..Len(s) : s[j] = 46
    THEN CHOOSE j \in i..Len(s) : s[j] = 46 /\ \A k \in i..(j - 1) : s[k] /= 46
    ELSE Len(s) + 1

RECURSIVE SplitSentences(_, _)
\* re.split(r"(?<=\.)\s*", s) from index start: the text is cut after every
\* period and the whitespace that follows the period is dropped; a final
\* period leaves a last empty piece.
SplitSentences(s, start) ==
    LET p == NextPeriod(s, start)
    IN  IF p > Len(s) THEN << SubSeq(s, start, Len(s)) >>
        ELSE << SubSeq(s, start, p) >> \o SplitSentences(s, SkipSpaces(s, p + 1))

\* format_model_description: the braces and brackets (123, 125, 91, 93) go,
\* an underscore (95) becomes a space (32), a colon (58) becomes ": ", a
\* comma (44) becomes ". ", and the sentences are capitalised and joined
\* with ". ".
format_model_description(raw_text) ==
    LET noBrackets == RemoveChars(raw_text, {123, 125, 91, 93})
        noUnderscore == ReplaceChar(noBrackets, 95, 32)
        colons == SubSpaced(noUnderscore, 58, << 58, 32 >>)
        commas == SubSpaced(colons, 44, << 46, 32 >>)
        stripped == Strip(commas)
        sentences == SplitSentences(stripped, 1)
    IN  Join([k \in 1..Len(sentences) |-> Capitalize(sentences[k])], << 46, 32 >>)

(***************************************************************************)
(* Record values.  A source record is an ordered mapping: a sequence of    *)
(* <<key, value>> entries in the record's own key order.  A value is one   *)
(* of  [kind |-> "int", n |-> integer],  [kind |-> "str", s |-> chars],     *)
(* [kind |-> "list", items |-> sequence of chars] and                      *)
(* [kind |-> "dict", entries |-> sequence of <<key, value>>].              *)
(***************************************************************************)
IntV(n) == [kind |-> "int", n |-> n]
StrV(s) == [kind |-> "str", s |-> s]
ListV(items) == [kind |-> "list", items |-> items]
DictV(entries) == [kind |-> "dict", entries |-> entries]

\* "0123456789abcdef"
HexDigits == << 48, 49, 50, 51, 52, 53, 54, 55, 56, 57, 97, 98, 99, 100, 101, 102 >>

RECURSIVE NatToStr(_)
\* The decimal digits of n >= 0.
NatToStr(n) ==
    IF n < 10 THEN << HexDigits[n + 1] >>
    ELSE NatToStr(n \div 10) \o << HexDigits[(n % 10) + 1] >>

\* str(n) of an int: a minus sign (45) before the digits of a negative n.
IntToStr(n) == IF n < 0 THEN << 45 >> \o NatToStr(0 - n) ELSE NatToStr(n)

RECURSIVE Hex(_, _)
\* The last width hexadecimal digits of n >= 0, in lower case.
Hex(n, width) ==
    IF width = 0 THEN << >>
    ELSE Hex(n \div 16, width - 1) \o << HexDigits[(n % 16) + 1] >>

HasKey(entries, key) == \E i \in 1..Len(entries) : entries[i][1] = key
\* mapping[key]; a later entry for the same key cannot exist in a dict
Lookup(entries, key) ==
    entries[CHOOSE i \in 1..Len(entries) : entries[i][1] = key][2]

\* "_id"
k_id == << 95, 105, 100 >>
\* "content"
k_content == << 99, 111, 110, 116, 101, 110, 116 >>
\* "name"
k_name == << 110, 97, 109, 101 >>
\* "task"
k_task == << 116, 97, 115, 107 >>
\* "size"
k_size == << 115, 105, 122, 101 >>
\* "stars"
k_stars == << 115, 116, 97, 114, 115 >>
\* "popularity"
k_popularity == << 112, 111, 112, 117, 108, 97, 114, 105, 116, 121 >>
\* "performance"
k_performance == << 112, 101, 114, 102, 111, 114, 109, 97, 110, 99, 101 >>
\* "hardware_requirements"
k_hardware_requirements ==
    << 104, 97, 114, 100, 119, 97, 114, 101, 95, 114,
       101, 113, 117, 105, 114, 101, 109, 101, 110, 116, 115 >>
\* "$numberDouble"
k_numberDouble ==
    << 36, 110, 117, 109, 98, 101, 114, 68, 111, 117, 98, 108, 101 >>
\* "$numberInt"
k_numberInt == << 36, 110, 117, 109, 98, 101, 114, 73, 110, 116 >>

\* ", " and ": "
CommaSpace == << 44, 32 >>
ColonSpace == << 58, 32 >>

\* What repr() of a string in the given quotes shows for c: a backslash (92)
\* before the backslash and the enclosing quote, \t \n \r for the tab, the
\* line feed and the carriage return, and for any other character that is not
\* printable \xhh up to U+00FF, \uhhhh up to U+FFFF, \Uhhhhhhhh above.
ReprChar(c, quote) ==
    IF c = quote \/ c = 92 THEN << 92, c >>
    ELSE IF c = 9 THEN << 92, 116 >>
    ELSE IF c = 10 THEN << 92, 110 >>
    ELSE IF c = 13 THEN << 92, 114 >>
    ELSE IF IsPrintable(c) THEN << c >>
    ELSE IF c <= 255 THEN << 92, 120 >> \o Hex(c, 2)
    ELSE IF c <= 65535 THEN << 92, 117 >> \o Hex(c, 4)
    ELSE << 92, 85 >> \o Hex(c, 8)

\* repr(s) of a string: in double quotes (34) when s holds a single quote
\* (39) and no double quote, in single quotes otherwise.
Quoted(s) ==
    LET has(c) == \E i \in 1..Len(s) : s[i] = c
        quote == IF has(39) /\ ~has(34) THEN 34 ELSE 39
    IN  << quote >> \o Flatten([i \in 1..Len(s) |-> ReprChar(s[i], quote)])
        \o << quote >>

RECURSIVE PyRepr(_)
\* repr(value): what str() of a container shows of its elements, a list in
\* brackets (91, 93) and a mapping in braces (123, 125).
PyRepr(value) ==
    CASE value.kind = "int" -> IntToStr(value.n)
      [] value.kind = "str" -> Quoted(value.s)
      [] value.kind = "list" ->
            << 91 >>
            \o Join([i \in 1..Len(value.items) |-> Quoted(value.items[i])], CommaSpace)
            \o << 93 >>
      [] value.kind = "dict" ->
            << 123 >>
            \o Join([i \in 1..Len(value.entries) |->
                        Quoted(value.entries[i][1]) \o ColonSpace
                        \o PyRepr(value.entries[i][2])], CommaSpace)
            \o << 125 >>

\* str(value)
PyStr(value) == IF value.kind = "str" THEN value.s ELSE PyRepr(value)

\* convert_value of dict_to_string
convert_value(value) ==
    IF value.kind = "dict"
    THEN IF HasKey(value.entries, k_numberDouble)
         THEN PyStr(Lookup(value.entries, k_numberDouble))
         ELSE IF HasKey(value.entries, k_numberInt)
              THEN PyStr(Lookup(value.entries, k_numberInt))
              ELSE PyStr(value)
    ELSE IF value.kind = "list"
         THEN Join(value.items, CommaSpace)
         ELSE PyStr(value)

SpecialKeys == { k_performance, k_hardware_requirements, k_popularity }

\* one element of string_parts
string_part(key, value) ==
    IF value.kind = "dict" /\ key \in SpecialKeys
    THEN key \o ColonSpace \o << 123 >>
         \o Join([i \in 1..Len(value.entries) |->
                     value.entries[i][1] \o ColonSpace
                     \o convert_value(value.entries[i][2])], CommaSpace)
         \o << 125 >>
    ELSE key \o ColonSpace \o convert_value(value)

\* dict_to_string: the record's entries as "key: value", comma-joined, in the
\* record's key order.  (Its except branch is not reachable for a mapping.)
dict_to_string(item) ==
    Join([i \in 1..Len(item) |-> string_part(item[i][1], item[i][2])], CommaSpace)

\* item["content"] = ...: assignment to a key of an ordered mapping keeps the
\* key's position when it is present and appends it otherwise.
SetKey(item, key, value) ==
    IF HasKey(item, key)
    THEN [i \in 1..Len(item) |-> IF item[i][1] = key THEN << key, value >> ELSE item[i]]
    ELSE Append(item, << key, value >>)

\* The body of the loop of models_to_text for one record.
normalize_item(item) ==
    SetKey(item, k_content, StrV(format_model_description(dict_to_string(item))))

\* models_to_text: every record of the list gets its "content".
models_to_text(data) == [i \in 1..Len(data) |-> normalize_item(data[i])]

(***************************************************************************)
(* The source collection's records.  Record i has the key i; the three     *)
(* shapes exercise scalars, a list, a grouped mapping and number wrappers: *)
(*   {"_id": i, "name": "a_B"},                                            *)
(*   {"_id": i, "name": "Cd", "task": ["x", "yz"]},                        *)
(*   {"_id": i, "popularity": {"stars": {"$numberInt": "5"}},              *)
(*    "size": {"$numberDouble": "1.5"}}.                                   *)
(***************************************************************************)
SourceRecord(i) ==
    CASE i % 3 = 1 ->
            << << k_id, IntV(i) >>, << k_name, StrV(<< 97, 95, 66 >>) >> >>
      [] i % 3 = 2 ->
            << << k_id, IntV(i) >>, << k_name, StrV(<< 67, 100 >>) >>,
               << k_task, ListV(<< << 120 >>, << 121, 122 >> >>) >> >>
      [] i % 3 = 0 ->
            << << k_id, IntV(i) >>,
               << k_popularity,
                  DictV(<< << k_stars, DictV(<< << k_numberInt, StrV(<< 53 >>) >> >>) >> >>) >>,
               << k_size, DictV(<< << k_numberDouble, StrV(<< 49, 46, 53 >>) >> >>) >> >>

\* The source collection is kept as the sequence of its records' keys in
\* natural order (keys 1..n at the start); Records gives the documents.
Collection(n) == [i \in 1..n |-> i]
Records(keys) == [i \in 1..Len(keys) |-> SourceRecord(keys[i])]

(***************************************************************************)
(* MongoDBConnector (source repository accessor).                          *)
(***************************************************************************)
\* count_documents(collection): the number of documents of the collection.
count_documents(coll) == Len(coll)

\* Variant: the skip computed from a 0-based page number.
get_all_with_pagination_zero_based(coll, page, page_size) ==
    LET skip == page * page_size
    IN  SubSeq(coll, skip + 1, Min(Len(coll), skip + page_size))

\* get_all_with_pagination: collection.find().skip(skip).limit(page_size);
\* a limit of 0 is no limit.  For page >= 1 and page_size >= 0, which is what
\* run passes: with a negative page_size its range of pages is empty.
get_all_with_pagination(coll, page, page_size) ==
    LET skip == (page - 1) * page_size
    IN  IF page_size = 0 THEN SubSeq(coll, skip + 1, Len(coll))
        ELSE SubSeq(coll, skip + 1, Min(Len(coll), skip + page_size))

(***************************************************************************)
(* SBERTModel.  A vector is [dim |-> its length, draw |-> what it holds]:  *)
(* the model's native vector of a text holds the text; a projected vector  *)
(* holds the outcome, 1..NumDraws, of the random layer and random input    *)
(* that project_embeddings creates on the call.                            *)
(***************************************************************************)
original_embedding_size == 384
target_embedding_size == 1024

\* self.model.encode(texts).tolist(): one native vector per text
model_encode(texts) ==
    [i \in 1..Len(texts) |-> [dim |-> original_embedding_size, draw |-> texts[i]]]

\* project_embeddings: the argument is overwritten by torch.randn(1, 384) and
\* projected by a fresh nn.Linear; the result has shape (1, 1024).
project_embeddings(embedding, draw) ==
    << [dim |-> target_embedding_size, draw |-> draw] >>

\* SBERTModel.encode
encode(texts, draw) == project_embeddings(model_encode(texts), draw)

(***************************************************************************)
(* MongoDBVectorStore.  The vector collection is the sequence of its       *)
(* documents [_id, text, embedding, metadata] in insertion order; text and *)
(* metadata are optional.  MongoDB keeps _id unique in a collection.       *)
(***************************************************************************)
StoreIds(coll) == { coll[i]._id : i \in 1..Len(coll) }

\* Variant: a collection that does not keep _id unique.
insert_many_duplicates(coll, documents) ==
    [store |-> coll \o documents, raised |-> FALSE]

RECURSIVE insert_many(_, _)
\* collection.insert_many(documents), ordered: documents are written in order
\* up to the first one whose _id is already in the collection, which raises.
insert_many(coll, documents) ==
    IF Len(documents) = 0 THEN [store |-> coll, raised |-> FALSE]
    ELSE IF documents[1]._id \in StoreIds(coll)
         THEN [store |-> coll, raised |-> TRUE]
         ELSE insert_many(Append(coll, documents[1]), Tail(documents))

\* MongoDBVectorStore.insert_vectors: insert_many of a non-empty list; pymongo
\* refuses an empty list with TypeError before any write, and a duplicate _id
\* with BulkWriteError.  The exception is logged and raised again.  The method
\* has no return statement: what it returns, ret, is None; the number of
\* inserted ids only goes to the log.
insert_vectors(coll, vectors) ==
    IF Len(vectors) = 0
    THEN [store |-> coll, raised |-> TRUE, error |-> "TypeError", ret |-> None]
    ELSE LET result == insert_many(coll, vectors)
         IN  [store |-> result.store, raised |-> result.raised,
              error |-> IF result.raised THEN "BulkWriteError" ELSE "none",
              ret |-> None]

\* Truth value of the Optional[List[float]] argument: None and [] are falsy.
Truthy(embedding) == ~IsNone(embedding) /\ embedding[1].dim > 0

\* collection.update_one({"_id": id}, {"$set": update}) without upsert: the
\* document with that _id gets the fields of update, nothing else changes.
update_one(coll, vector_id, update) ==
    [i \in 1..Len(coll) |->
        IF coll[i]._id = vector_id
        THEN [f \in DOMAIN coll[i] \cup DOMAIN update |->
                 IF f \in DOMAIN update THEN update[f] ELSE coll[i][f]]
        ELSE coll[i]]

\* collection.delete_one({"_id": id})
delete_one(coll, vector_id) == SelectSeq(coll, LAMBDA d : d._id /= vector_id)

\* Variant: the embedding is set whether or not one was given.
update_vector_overwrite(coll, vector_id, metadata, embedding) ==
    LET update_data ==
            [metadata |-> Some(metadata),
             embedding |-> IF IsNone(embedding) THEN [dim |-> 0, draw |-> 0]
                           ELSE embedding[1]]
        after == update_one(coll, vector_id, update_data)
    IN  [store |-> after, raised |-> FALSE,
         log |-> IF after /= coll THEN "info" ELSE "warning"]

\* Variant: update_one with upsert, which creates the missing document.
update_vector_upsert(coll, vector_id, metadata, embedding) ==
    LET update_data ==
            IF Truthy(embedding)
            THEN [metadata |-> Some(metadata), embedding |-> embedding[1]]
            ELSE [metadata |-> Some(metadata)]
        after ==
            IF vector_id \in StoreIds(coll)
            THEN update_one(coll, vector_id, update_data)
            ELSE Append(coll, [_id |-> vector_id, text |-> None,
                               embedding |-> IF Truthy(embedding) THEN embedding[1]
                                             ELSE [dim |-> 0, draw |-> 0],
                               metadata |-> Some(metadata)])
    IN  [store |-> after, raised |-> FALSE,
         log |-> IF after /= coll THEN "info" ELSE "warning"]

\* MongoDBVectorStore.update_vector: the store after the call, whether the call
\* raised, and the level of its log line (modified_count > 0: info, else the
\* "No vector found" warning).
update_vector(coll, vector_id, metadata, embedding) ==
    LET update_data ==
            IF Truthy(embedding)
            THEN [metadata |-> Some(metadata), embedding |-> embedding[1]]
            ELSE [metadata |-> Some(metadata)]
        after == update_one(coll, vector_id, update_data)
    IN  [store |-> after, raised |-> FALSE,
         log |-> IF after /= coll THEN "info" ELSE "warning"]

\* MongoDBVectorStore.delete_vector (deleted_count > 0: info, else warning).
delete_vector(coll, vector_id) ==
    LET after == delete_one(coll, vector_id)
    IN  [store |-> after, raised |-> FALSE,
         log |-> IF Len(after) < Len(coll) THEN "info" ELSE "warning"]

\* The except branch of update_vector and of delete_vector: the call to the
\* collection raised (the store cannot be reached), nothing was written, the
\* error is logged and raised again.
store_unreachable(coll) == [store |-> coll, raised |-> TRUE, log |-> "error"]

\* The _id insert_many gives a document that has none: a fresh ObjectId, here
\* the next in the order of generation.
ObjectId(coll) ==
    LET made == { coll[i]._id.n : i \in { j \in 1..Len(coll) : coll[j]._id.kind = "oid" } }
    IN  [kind |-> "oid",
         n |-> IF made = { } THEN 1 ELSE 1 + CHOOSE n \in made : \A m \in made : m <= n]

\* add_vector (POST /vectors): insert_vectors of the one document
\* {text, embedding, metadata}, which has no _id.  An exception becomes the
\* HTTP 500 answer.
add_vector(coll, text, embedding, metadata) ==
    insert_vectors(coll, << [_id |-> ObjectId(coll), text |-> Some(text),
                             embedding |-> embedding,
                             metadata |-> Some(metadata)] >>)

\* MongoDBConnector.insert_to_collection on a collection whose documents have
\* the _id values coll_ids; data_list.ids are the _id values of the documents
\* data_list.items.  The three refusals in the order of the code, then the
\* ordered insert_many, which writes the documents before the first one
\* whose _id is taken and raises at that one.  ret is the list of inserted
\* ids, None when the call raised.
insert_to_collection(connected, coll, coll_ids, data_list) ==
    LET docs == data_list.items
        ids == data_list.ids
        taken(i) == \/ ids[i] \in coll_ids
                    \/ \E j \in 1..(i - 1) : ids[j] = ids[i]
        stop == IF \E i \in 1..Len(docs) : taken(i)
                THEN CHOOSE i \in 1..Len(docs) :
                        taken(i) /\ \A j \in 1..(i - 1) : ~taken(j)
                ELSE Len(docs) + 1
        refused(error) == [store |-> coll, raised |-> TRUE, error |-> error,
                           ret |-> None]
    IN  IF ~connected THEN refused("Exception")
        ELSE IF ~data_list.is_list THEN refused("TypeError")
        ELSE IF Len(docs) = 0 THEN refused("ValueError")
        ELSE IF stop <= Len(docs)
             THEN [store |-> coll \o SubSeq(docs, 1, stop - 1), raised |-> TRUE,
                   error |-> "BulkWriteError", ret |-> None]
             ELSE [store |-> coll \o docs, raised |-> FALSE, error |-> "none",
                   ret |-> Some(ids)]

(***************************************************************************)
(* IngestionPipeline._process_batch up to the insert: the vector documents *)
(* of a batch.                                                             *)
(***************************************************************************)
vector_docs(batch_data, draw) ==
    LET processed_data == models_to_text(Records(batch_data))
        model_ids == [i \in 1..Len(processed_data) |-> Lookup(processed_data[i], k_id)]
        texts == [i \in 1..Len(processed_data) |-> Lookup(processed_data[i], k_content).s]
        embeddings == encode(texts, draw)
    IN  [i \in 1..Zip3Len(model_ids, texts, embeddings) |->
            [_id |-> model_ids[i], text |-> Some(texts[i]),
             embedding |-> embeddings[i], metadata |-> None]]

\* Variant: the quotient rounded down instead of up.
total_pages_floor(total_docs, page_size) ==
    IF page_size > 0 THEN total_docs \div page_size
    ELSE 0 - ((total_docs + (0 - page_size) - 1) \div (0 - page_size))

\* math.ceil(total_docs / page_size), page_size /= 0: the least integer that
\* is not below the quotient, which is negative or zero for a negative
\* page_size.  (The quotient is a float: it is exact for counts below 2^53.)
total_pages_of(total_docs, page_size) ==
    IF page_size > 0 THEN 0 - ((0 - total_docs) \div page_size)
    ELSE 0 - (total_docs \div (0 - page_size))

\* start_page if start_page else 1: None and 0 are falsy
start_or_default(start_page) ==
    IF IsNone(start_page) \/ start_page[1] = 0 THEN 1 ELSE start_page[1]

\* end_page if end_page else total_pages: None and 0 are falsy
end_or_default(end_page, total_pages) ==
    IF IsNone(end_page) \/ end_page[1] = 0 THEN total_pages ELSE end_page[1]

(***************************************************************************)
(* State.                                                                  *)
(***************************************************************************)
VARIABLES
    source,             \* the source collection: its records' keys in natural order
    vstore,             \* the vector collection, in insertion order
    source_collection,  \* IngestionPipeline.source_collection (None until a run)
    pc,                 \* where the pipeline call is: idle, loop, batch, exit,
                        \* completed (a report was returned), failed (it raised)
    page_size,          \* run's arguments, as passed
    start_page,
    end_arg,
    total_docs,         \* run's locals
    total_pages,
    current_page,
    end_page,
    total_processed,
    batch_data,         \* the keys of the fetched records
    report,             \* what run returned, None when it did not return
    fetched,            \* history: the pages fetched by the run, in order
    processed,          \* history: per processed batch, the page, the keys of
                        \* its records and the count _process_batch returned
    failed_at,          \* history: the page whose batch raised, 0 when none
    stage,              \* history: where run raised: none, start, batch, return
    store0,             \* history: the vector collection when the run started
    runs,               \* history: the number of runs started
    calls,              \* history: the number of calls of other clients
    foreign,            \* history: another client changed the vector collection
                        \* since the run started
    last,               \* history: the call of another client that the latest
                        \* step carried out, its outcome, the vector collection
                        \* before and after it; NoCall after a pipeline step
    gp,                 \* where the get_progress call is, and what it has read
    progress            \* what get_progress returned, None when it did not

vars == << source, vstore, source_collection, pc, page_size, start_page, end_arg,
           total_docs, total_pages, current_page, end_page, total_processed,
           batch_data, report, fetched, processed, failed_at, stage, store0,
           runs, calls, foreign, last, gp, progress >>

runLocals == << total_docs, total_pages, current_page, end_page, total_processed,
                batch_data >>
runArgs == << page_size, start_page, end_arg >>
runHistory == << fetched, processed, failed_at, stage, store0 >>

\* The values of the arguments the callers pass.
\* page_size is an int of the request that nothing validates, None when the
\* caller leaves it out.
PageSizeArgs == { None } \cup { Some(n) : n \in (0 - 1)..(MaxDocs - 1) }
PageArgs == { None } \cup { Some(n) : n \in (0 - 1)..(MaxDocs - 1) }
\* The id of the first record.
VectorIds == { IntV(1) }
\* "z"
Texts == { << 122 >> }
\* add_vector stores the embedding it is given, of whatever length.
AddedEmbeddings == { [dim |-> 2, draw |-> NumDraws + 2] }
Metadatas == { << "m", "1" >> }
AddedMetadatas == { << "m", "0" >> }
EmbeddingArgs ==
    { None, Some([dim |-> 0, draw |-> 0]),
      Some([dim |-> target_embedding_size, draw |-> NumDraws + 1]) }

NoCall == [op |-> "none", id |-> IntV(0), metadata |-> << >>, embedding |-> None,
           fault |-> FALSE, raised |-> FALSE, log |-> "none",
           before |-> << >>, after |-> << >>]

NoProgressCall == [at |-> "none", total |-> 0, fault |-> FALSE, calls |-> 0]

Running == pc \in { "loop", "batch", "exit" }

Init ==
    /\ source \in { Collection(n) : n \in 0..MaxDocs }
    /\ vstore = << >>
    /\ source_collection = None
    /\ pc = "idle"
    /\ page_size = None
    /\ start_page = None
    /\ end_arg = None
    /\ total_docs = 0
    /\ total_pages = 0
    /\ current_page = 0
    /\ end_page = 0
    /\ total_processed = 0
    /\ batch_data = << >>
    /\ report = None
    /\ fetched = << >>
    /\ processed = << >>
    /\ failed_at = 0
    /\ stage = "none"
    /\ store0 = << >>
    /\ runs = 0
    /\ calls = 0
    /\ foreign = FALSE
    /\ last = NoCall
    /\ gp = NoProgressCall
    /\ progress = None

(***************************************************************************)
(* IngestionPipeline.run, in the steps between which the collections can   *)
(* change: entry up to the loop, the fetch of a page, the batch, the       *)
(* return.  A collaborator that raises is the input fault.                 *)
(***************************************************************************)
\* Variant: the handler logs the exception and run returns its report.
RaiseSwallowed(page, where) ==
    /\ pc' = "completed"
    /\ failed_at' = page
    /\ stage' = where
    /\ report' = Some([status |-> "success", total_processed |-> total_processed,
                       pages_processed |-> 0, total_pages |-> total_pages])

\* run raised: the exception leaves through both handlers, nothing is returned.
Raise(page, where) ==
    /\ pc' = "failed"
    /\ failed_at' = page
    /\ stage' = where
    /\ report' = None

\* Lines 88-105: count, total_pages, the page range.
RunStart(ps, sp, ep, fault) ==
    /\ last' = NoCall
    /\ pc = "idle"
    /\ runs + calls < MaxRequests
    /\ runs' = runs + 1
    /\ foreign' = FALSE
    /\ gp' = NoProgressCall
    /\ source_collection' = Some("source")
    /\ page_size' = ps
    /\ start_page' = sp
    /\ end_arg' = ep
    /\ fetched' = << >>
    /\ processed' = << >>
    /\ store0' = vstore
    /\ batch_data' = << >>
    /\ total_processed' = 0
    /\ progress' = None
    /\ UNCHANGED << source, vstore, calls >>
    /\ IF fault
       THEN \* count_documents raised
            /\ Raise(0, "start")
            /\ total_docs' = 0 /\ total_pages' = 0
            /\ current_page' = 0 /\ end_page' = 0
       ELSE IF IsNone(ps) \/ ps[1] = 0
       THEN \* total_docs / page_size: TypeError or ZeroDivisionError
            /\ Raise(0, "start")
            /\ total_docs' = count_documents(source) /\ total_pages' = 0
            /\ current_page' = 0 /\ end_page' = 0
       ELSE /\ total_docs' = count_documents(source)
            /\ total_pages' = total_pages_of(total_docs', ps[1])
            /\ current_page' = Max(1, start_or_default(sp))
            /\ end_page' = Min(total_pages', end_or_default(ep, total_pages'))
            /\ pc' = "loop"
            /\ failed_at' = 0
            /\ stage' = "none"
            /\ report' = None

\* Lines 108-121: the loop test holds, the page is fetched; an empty page
\* breaks out of the loop.
FetchPage(fault) ==
    /\ last' = NoCall
    /\ pc = "loop"
    /\ current_page <= end_page
    /\ UNCHANGED << source, vstore, source_collection, runArgs, total_docs, total_pages,
                    current_page, end_page, total_processed, processed, store0,
                    runs, calls, foreign, gp,
                    progress >>
    /\ IF fault
       THEN /\ Raise(current_page, "batch")
            /\ UNCHANGED << batch_data, fetched >>
       ELSE /\ batch_data' = get_all_with_pagination(source, current_page, page_size[1])
            /\ fetched' = Append(fetched, current_page)
            /\ pc' = IF Len(batch_data') = 0 THEN "exit" ELSE "batch"
            /\ UNCHANGED << failed_at, stage, report >>

\* Variant: the loop does not advance the page after a batch.
ProcessBatchSamePage(draw, fault) ==
    /\ last' = NoCall
    /\ pc = "batch"
    /\ UNCHANGED << source, source_collection, runArgs, total_docs, total_pages,
                    end_page, batch_data, fetched, store0, runs, calls,
                    foreign, gp, progress, current_page >>
    /\ IF fault /= "none"
       THEN /\ Raise(current_page, "batch")
            /\ UNCHANGED << vstore, total_processed, processed >>
       ELSE LET docs == vector_docs(batch_data, draw)
                res == insert_vectors(vstore, docs)
            IN  /\ vstore' = res.store
                /\ IF res.raised
                   THEN /\ Raise(current_page, "batch")
                        /\ UNCHANGED << total_processed, processed >>
                   ELSE /\ total_processed' = total_processed + Len(docs)
                        /\ processed' = Append(processed,
                                [page |-> current_page, records |-> batch_data,
                                 count |-> Len(docs)])
                        /\ pc' = "loop"
                        /\ UNCHANGED << failed_at, stage, report >>

\* Variant: a batch that raised is tried again: the loop goes back to the
\* fetch of the same page.
ProcessBatchRetry(draw, fault) ==
    /\ last' = NoCall
    /\ pc = "batch"
    /\ UNCHANGED << source, source_collection, runArgs, total_docs, total_pages,
                    end_page, batch_data, fetched, store0, runs, calls,
                    foreign, gp, progress >>
    /\ IF fault /= "none"
       THEN /\ pc' = "loop"
            /\ UNCHANGED << vstore, current_page, total_processed, processed,
                            failed_at, stage, report >>
       ELSE LET docs == vector_docs(batch_data, draw)
                res == insert_vectors(vstore, docs)
            IN  /\ vstore' = res.store
                /\ IF res.raised
                   THEN /\ pc' = "loop"
                        /\ UNCHANGED << current_page, total_processed, processed,
                                        failed_at, stage, report >>
                   ELSE /\ total_processed' = total_processed + Len(docs)
                        /\ processed' = Append(processed,
                                [page |-> current_page, records |-> batch_data,
                                 count |-> Len(docs)])
                        /\ current_page' = current_page + 1
                        /\ pc' = "loop"
                        /\ UNCHANGED << failed_at, stage, report >>

\* Variant: _process_batch returns the number of records of the batch
\* instead of the number of vector documents it built.
ProcessBatchCountsRecords(draw, fault) ==
    /\ last' = NoCall
    /\ pc = "batch"
    /\ UNCHANGED << source, source_collection, runArgs, total_docs, total_pages,
                    end_page, batch_data, fetched, store0, runs, calls,
                    foreign, gp, progress >>
    /\ IF fault /= "none"
       THEN /\ Raise(current_page, "batch")
            /\ UNCHANGED << vstore, current_page, total_processed, processed >>
       ELSE LET docs == vector_docs(batch_data, draw)
                res == insert_vectors(vstore, docs)
            IN  /\ vstore' = res.store
                /\ IF res.raised
                   THEN /\ Raise(current_page, "batch")
                        /\ UNCHANGED << current_page, total_processed, processed >>
                   ELSE /\ total_processed' = total_processed + Len(batch_data)
                        /\ processed' = Append(processed,
                                [page |-> current_page, records |-> batch_data,
                                 count |-> Len(docs)])
                        /\ current_page' = current_page + 1
                        /\ pc' = "loop"
                        /\ UNCHANGED << failed_at, stage, report >>

\* Lines 123-130 and _process_batch: normalise, embed, insert, count.
\* fault: "encode" (the model raised), "store" (the store is unreachable),
\* "none".  A duplicate _id makes insert_many raise after the writes before it.
ProcessBatch(draw, fault) ==
    /\ last' = NoCall
    /\ pc = "batch"
    /\ UNCHANGED << source, source_collection, runArgs, total_docs, total_pages,
                    end_page, batch_data, fetched, store0, runs, calls,
                    foreign, gp, progress >>
    /\ IF fault /= "none"
       THEN /\ Raise(current_page, "batch")
            /\ UNCHANGED << vstore, current_page, total_processed, processed >>
       ELSE LET docs == vector_docs(batch_data, draw)
                res == insert_vectors(vstore, docs)
            IN  /\ vstore' = res.store
                /\ IF res.raised
                   THEN /\ Raise(current_page, "batch")
                        /\ UNCHANGED << current_page, total_processed, processed >>
                   ELSE /\ total_processed' = total_processed + Len(docs)
                        /\ processed' = Append(processed,
                                [page |-> current_page, records |-> batch_data,
                                 count |-> Len(docs)])
                        /\ current_page' = current_page + 1
                        /\ pc' = "loop"
                        /\ UNCHANGED << failed_at, stage, report >>

\* Lines 138-147: the loop is left (test false, or break) and the report is
\* built; current_page - start_page raises TypeError when start_page is None.
RunReturn ==
    /\ last' = NoCall
    /\ \/ pc = "exit"
       \/ pc = "loop" /\ current_page > end_page
    /\ UNCHANGED << source, vstore, source_collection, runArgs, runLocals, fetched,
                    processed, store0, runs, calls, foreign, gp,
                    progress >>
    /\ IF IsNone(start_page)
       THEN Raise(0, "return")
       ELSE /\ pc' = "completed"
            /\ report' = Some([status |-> "success",
                               total_processed |-> total_processed,
                               pages_processed |-> current_page - start_page[1],
                               total_pages |-> total_pages])
            /\ UNCHANGED << failed_at, stage >>

(***************************************************************************)
(* The calls of other clients on the two collections.  The requests are    *)
(* served concurrently: a call is carried out whenever it arrives, between *)
(* two steps of a run or of get_progress as well.  A behaviour has at most *)
(* MaxRequests runs and calls of other clients together.                   *)
(***************************************************************************)
runState == << source_collection, pc, runArgs, runLocals, report, runHistory,
               gp, progress >>

\* The history of foreign writes after a call that left the vector collection
\* as after: a change while a pipeline exists is recorded.
Foreign(after) == foreign \/ (pc /= "idle" /\ after /= vstore)

\* The record of a call on the vector collection.
Called(op, vector_id, metadata, embedding, fault, res) ==
    [op |-> op, id |-> vector_id, metadata |-> metadata, embedding |-> embedding,
     fault |-> fault, raised |-> res.raised, log |-> res.log,
     before |-> vstore, after |-> res.store]

\* update_vector; fault: the collection cannot be reached.
UpdateVector(vector_id, metadata, embedding, fault) ==
    /\ runs + calls < MaxRequests
    /\ calls' = calls + 1
    /\ LET res == IF fault THEN store_unreachable(vstore)
                  ELSE update_vector(vstore, vector_id, metadata, embedding)
       IN  /\ vstore' = res.store
           /\ foreign' = Foreign(res.store)
           /\ last' = Called("update", vector_id, metadata, embedding, fault, res)
    /\ UNCHANGED << source, runState, runs >>

\* delete_vector; fault: the collection cannot be reached.
DeleteVector(vector_id, fault) ==
    /\ runs + calls < MaxRequests
    /\ calls' = calls + 1
    /\ LET res == IF fault THEN store_unreachable(vstore)
                  ELSE delete_vector(vstore, vector_id)
       IN  /\ vstore' = res.store
           /\ foreign' = Foreign(res.store)
           /\ last' = Called("delete", vector_id, << >>, None, fault, res)
    /\ UNCHANGED << source, runState, runs >>

\* add_vector; fault: the collection cannot be reached (insert_many raises,
\* insert_vectors logs the error and raises it again).
AddVector(text, embedding, metadata, fault) ==
    /\ runs + calls < MaxRequests
    /\ calls' = calls + 1
    /\ LET res == IF fault THEN store_unreachable(vstore)
                  ELSE add_vector(vstore, text, embedding, metadata)
       IN  /\ vstore' = res.store
           /\ foreign' = Foreign(res.store)
           /\ last' = Called("add", ObjectId(vstore), metadata, Some(embedding),
                             fault,
                             [store |-> res.store, raised |-> res.raised,
                              log |-> IF res.raised THEN "error" ELSE "info"])
    /\ UNCHANGED << source, runState, runs >>

\* The lists of documents a client inserts with insert_to_collection: into
\* the source collection the first record or the record after the last one,
\* into the vector collection a document with the _id of the first record and
\* no embedding; the empty list; a value that is not a list.
NotAList == [is_list |-> FALSE, items |-> << >>, ids |-> << >>]
ListOf(items, ids) == [is_list |-> TRUE, items |-> items, ids |-> ids]
SourceLists ==
    { NotAList, ListOf(<< >>, << >>), ListOf(<< 1 >>, << 1 >>) }
        \cup { ListOf(<< k >>, << k >>) : k \in { Len(source) + 1 } \cap 1..MaxDocs }
VectorLists ==
    { NotAList, ListOf(<< >>, << >>),
      ListOf(<< [_id |-> IntV(1), text |-> Some(<< 122 >>)] >>, << IntV(1) >>) }

\* insert_to_collection on the source collection; connected: connect() was
\* called and succeeded.
InsertToSource(data_list, connected) ==
    /\ runs + calls < MaxRequests
    /\ calls' = calls + 1
    /\ LET res == insert_to_collection(connected, source,
                                       { source[i] : i \in 1..Len(source) },
                                       data_list)
       IN  /\ source' = res.store
           /\ last' = [op |-> "insert_source", id |-> IntV(0), metadata |-> << >>,
                       embedding |-> None, fault |-> ~connected,
                       raised |-> res.raised,
                       log |-> IF res.raised THEN "error" ELSE "info",
                       before |-> vstore, after |-> vstore]
    /\ UNCHANGED << vstore, runState, runs, foreign >>

\* insert_to_collection on the vector collection.
InsertToVectors(data_list, connected) ==
    /\ runs + calls < MaxRequests
    /\ calls' = calls + 1
    /\ LET res == insert_to_collection(connected, vstore, StoreIds(vstore),
                                       data_list)
       IN  /\ vstore' = res.store
           /\ foreign' = Foreign(res.store)
           /\ last' = Called("insert", IntV(0), << >>, None, ~connected,
                             [store |-> res.store, raised |-> res.raised,
                              log |-> IF res.raised THEN "error" ELSE "info"])
    /\ UNCHANGED << source, runState, runs >>

\* vector_store.count_documents(): the number of vector documents.
vector_count(coll) == Len(coll)

\* Variant: the percentage computed without the test of total_docs > 0; a
\* denominator of 0 is the division by zero.
progress_report_unguarded(total, done) ==
    [total_documents |-> total,
     processed_documents |-> done,
     remaining_documents |-> total - done,
     progress_percentage |-> [num |-> done * 100, den |-> total]]

\* The report of get_progress; the percentage processed / total * 100 is kept
\* as the fraction num / den.
progress_report(total, done) ==
    [total_documents |-> total,
     processed_documents |-> done,
     remaining_documents |-> total - done,
     progress_percentage |->
        IF total > 0 THEN [num |-> done * 100, den |-> total]
        ELSE [num |-> 0, den |-> 1]]

\* IngestionPipeline.get_progress is called on the pipeline that ran, or on a
\* fresh one.  Line 164, its first read: self.source_collection, which only
\* run assigns (AttributeError on a fresh pipeline), then the count of the
\* source collection; fault: the count raised.  The exception is logged and
\* raised again.
ProgressCount(fault) ==
    /\ pc \in { "idle", "completed", "failed" }
    /\ gp.at /= "counted"
    /\ progress' = None
    /\ gp' = IF IsNone(source_collection) \/ fault
             THEN [at |-> "raised", total |-> 0, fault |-> fault, calls |-> calls]
             ELSE [at |-> "counted", total |-> count_documents(source),
                   fault |-> FALSE, calls |-> calls]
    /\ UNCHANGED << source, vstore, source_collection, pc, runArgs, runLocals,
                    report, runHistory, runs, calls, foreign >>
    /\ last' = NoCall

\* Lines 165-174, its second read: the count of the vector collection, and
\* the report; fault: the count raised.
ProgressReturn(fault) ==
    /\ gp.at = "counted"
    /\ IF fault
       THEN /\ gp' = [gp EXCEPT !.at = "raised", !.fault = TRUE]
            /\ progress' = None
       ELSE /\ gp' = [gp EXCEPT !.at = "returned"]
            /\ progress' = Some(progress_report(gp.total, vector_count(vstore)))
    /\ UNCHANGED << source, vstore, source_collection, pc, runArgs, runLocals,
                    report, runHistory, runs, calls, foreign >>
    /\ last' = NoCall

\* The upstream system removes the last record of the source collection: at
\* any time, between the count and a fetch of a run and between the two
\* counts of get_progress as well.
UpstreamDelete ==
    /\ runs + calls < MaxRequests
    /\ calls' = calls + 1
    /\ Len(source) > 0
    /\ source' = SubSeq(source, 1, Len(source) - 1)
    /\ last' = [NoCall EXCEPT !.op = "upstream", !.before = vstore,
                              !.after = vstore]
    /\ UNCHANGED << vstore, runState, runs, foreign >>

\* The request that ran the pipeline ends: the IngestionPipeline it built and
\* the locals of run are gone; the collections stay.
Release ==
    /\ pc \in { "completed", "failed" }
    /\ gp.at /= "counted"
    /\ pc' = "idle"
    /\ source_collection' = None
    /\ page_size' = None /\ start_page' = None /\ end_arg' = None
    /\ total_docs' = 0 /\ total_pages' = 0 /\ current_page' = 0 /\ end_page' = 0
    /\ total_processed' = 0 /\ batch_data' = << >>
    /\ report' = None
    /\ fetched' = << >> /\ processed' = << >> /\ failed_at' = 0 /\ stage' = "none"
    /\ store0' = << >>
    /\ foreign' = FALSE
    /\ gp' = NoProgressCall
    /\ progress' = None
    /\ UNCHANGED << source, vstore, runs, calls >>
    /\ last' = NoCall

Next ==
    \/ \E ps \in PageSizeArgs, sp \in PageArgs, ep \in PageArgs, fault \in BOOLEAN :
            RunStart(ps, sp, ep, fault)
    \/ \E fault \in BOOLEAN : FetchPage(fault)
    \/ \E draw \in 1..NumDraws, fault \in { "none", "encode", "store" } :
            ProcessBatch(draw, fault)
    \/ RunReturn
    \/ \E id \in VectorIds, m \in Metadatas, e \in EmbeddingArgs, fault \in BOOLEAN :
            UpdateVector(id, m, e, fault)
    \/ \E id \in VectorIds, fault \in BOOLEAN : DeleteVector(id, fault)
    \/ \E t \in Texts, e \in AddedEmbeddings, m \in AddedMetadatas,
            fault \in BOOLEAN :
            AddVector(t, e, m, fault)
    \/ \E data_list \in SourceLists, connected \in BOOLEAN :
            InsertToSource(data_list, connected)
    \/ \E data_list \in VectorLists, connected \in BOOLEAN :
            InsertToVectors(data_list, connected)
    \/ \E fault \in BOOLEAN : ProgressCount(fault)
    \/ \E fault \in BOOLEAN : ProgressReturn(fault)
    \/ UpstreamDelete
    \/ Release

Spec == Init /\ [][Next]_vars

\* run is one synchronous call: once it has started, its next statement is
\* executed as long as the collaborator it waits for returns or raises.
RunStep ==
    \/ \E fault \in BOOLEAN : FetchPage(fault)
    \/ \E draw \in 1..NumDraws, fault \in { "none", "encode", "store" } :
            ProcessBatch(draw, fault)
    \/ RunReturn

LiveSpec == Spec /\ WF_vars(RunStep)

(***************************************************************************)
(* Vocabulary of the properties.                                           *)
(***************************************************************************)
\* run has ended: it returned a report or it raised.
RunOver == pc \in { "completed", "failed" }

\* run got past the count: total_docs and total_pages are those of this run.
RunCounted == pc \in { "loop", "batch", "exit", "completed" }
              \/ (pc = "failed" /\ stage /= "start")

\* The pages lo..hi in ascending order.
PageRange(lo, hi) == [i \in 1..Max(0, hi - lo + 1) |-> lo + i - 1]

ProcessedPages == [i \in 1..Len(processed) |-> processed[i].page]

RECURSIVE SumCounts(_, _)
\* The sum of the counts of the first n processed batches.
SumCounts(batches, n) ==
    IF n = 0 THEN 0 ELSE SumCounts(batches, n - 1) + batches[n].count

RECURSIVE SumRecords(_, _)
\* The number of source records of the first n processed batches.
SumRecords(batches, n) ==
    IF n = 0 THEN 0 ELSE SumRecords(batches, n - 1) + Len(batches[n].records)

\* No other client has changed the vector collection since the run started.
Quiet == ~foreign

\* The step is the call of another client.
ForeignStep == calls' /= calls

\* The documents the vector collection holds beyond those it held when the
\* run started: the documents of the run when no other client wrote.
AddedDocs == SubSeq(vstore, Len(store0) + 1, Len(vstore))

\* The documents batch k of this run added.
DocsOfBatch(k) ==
    SubSeq(AddedDocs, SumCounts(processed, k - 1) + 1, SumCounts(processed, k))

\* The normalized text of the record with the given key.
TextOf(key) == Lookup(normalize_item(SourceRecord(key)), k_content).s

\* The range the caller asked for: startPage, 1 when absent, endPage,
\* totalPages when absent, clamped to 1..totalPages.
AskedLo == Max(1, IF IsNone(start_page) THEN 1 ELSE start_page[1])
AskedHi == Min(total_pages, IF IsNone(end_arg) THEN total_pages ELSE end_arg[1])

\* The caller passed a page size of at least 1.
PageSizeGiven == ~IsNone(page_size) /\ page_size[1] >= 1

\* The run left the loop with every fetched page processed: no batch raised
\* and no fetched page was empty.
CleanRun == /\ RunOver
            /\ stage \in { "none", "return" }
            /\ Len(fetched) = Len(processed)

(***************************************************************************)
(* C1.  A run with a page size of at least 1 in which no batch fails and   *)
(* no page is empty fetches and processes exactly the pages                *)
(* max(1, startPage) .. min(totalPages, endPage), each once, whatever      *)
(* startPage and endPage are (absent, 0, negative, larger than             *)
(* totalPages).                                                            *)
(* The code takes endPage = 0 for an absent endPage and goes on to the     *)
(* last page.                                                              *)
(***************************************************************************)
C1_ExactlyTheAskedPages ==
    (CleanRun /\ PageSizeGiven) =>
        /\ fetched = PageRange(AskedLo, AskedHi)
        /\ ProcessedPages = PageRange(AskedLo, AskedHi)

(***************************************************************************)
(* C2.  Failure isolation: when the batch of page k raises, the run is     *)
(* over and failed with no report, the documents of the pages before k are *)
(* in the vector collection after those it held before, nothing of page k  *)
(* or of a later page is there, no page after k was fetched, and the run   *)
(* takes no further step.  The contents of the vector collection are those *)
(* the run left as long as no other client has written to it.              *)
(***************************************************************************)
C2_FailureIsolation ==
    stage = "batch" =>
        /\ pc = "failed"
        /\ report = None
        /\ failed_at >= 1
        /\ \A i \in 1..Len(processed) : processed[i].page < failed_at
        /\ \A i \in 1..Len(fetched) : fetched[i] <= failed_at
        /\ Quiet =>
              /\ SubSeq(vstore, 1, Len(store0)) = store0
              /\ Len(AddedDocs) = SumCounts(processed, Len(processed))
              /\ \A k \in 1..Len(processed) :
                    /\ processed[k].count >= 1
                    /\ \A j \in 1..Len(DocsOfBatch(k)) :
                          \E r \in 1..Len(processed[k].records) :
                              DocsOfBatch(k)[j]._id = IntV(processed[k].records[r])
        /\ ~ENABLED RunStep

C2_Witness ==
    /\ stage = "batch"
    /\ Quiet
    /\ failed_at = 2
    /\ Len(processed) = 1
    /\ Len(AddedDocs) = 1
    /\ Len(store0) = 0

(***************************************************************************)
(* C3.  Processing a non-empty page of N records inserts exactly N vector  *)
(* documents, the i-th with the i-th record's key, its normalized text and *)
(* its embedding, and adds N to the processed count.                       *)
(* The code inserts one document for a page, whatever N is.                *)
(***************************************************************************)
C3_OneDocumentPerRecord ==
    Quiet =>
    \A k \in 1..Len(processed) :
        LET n == Len(processed[k].records)
        IN  /\ processed[k].count = n
            /\ Len(DocsOfBatch(k)) = n
            /\ \A i \in 1..Len(DocsOfBatch(k)) :
                  /\ DocsOfBatch(k)[i]._id = IntV(processed[k].records[i])
                  /\ DocsOfBatch(k)[i].text = Some(TextOf(processed[k].records[i]))
                  /\ DocsOfBatch(k)[i].embedding.dim = target_embedding_size

BatchTexts ==
    [i \in 1..Len(batch_data) |-> TextOf(batch_data[i])]

(***************************************************************************)
(* C4.  For a non-empty list of N texts encode returns N vectors, all of   *)
(* the same length.  Checked on the texts of every fetched batch.          *)
(* The code returns one vector for any list.                               *)
(***************************************************************************)
C4_EncodeShape ==
    pc = "batch" =>
        \A draw \in 1..NumDraws :
            LET vectors == encode(BatchTexts, draw)
            IN  /\ Len(vectors) = Len(BatchTexts)
                /\ \A i, j \in 1..Len(vectors) : vectors[i].dim = vectors[j].dim

FullRunFromEmpty ==
    /\ pc = "completed"
    /\ PageSizeGiven
    /\ store0 = << >>
    /\ total_docs = Len(source)
    /\ total_docs > 0
    /\ ProcessedPages = PageRange(1, total_pages)

(***************************************************************************)
(* C5.  After a successful run with a page size of at least 1 over the     *)
(* whole range that started from an empty vector collection, get_progress  *)
(* reports processed_documents = total_documents, none remaining and 100   *)
(* percent.                                                                *)
(* The code leaves one document per page in the vector collection.         *)
(***************************************************************************)
C5_ProgressAfterFullRun ==
    (FullRunFromEmpty /\ Quiet /\ gp.at = "returned" /\ gp.calls = calls) =>
        /\ progress[1].total_documents = total_docs
        /\ progress[1].processed_documents = progress[1].total_documents
        /\ progress[1].remaining_documents = 0
        /\ progress[1].progress_percentage.num
              = 100 * progress[1].progress_percentage.den

CountedPage(p) == get_all_with_pagination(Collection(total_docs), p, page_size[1])

(***************************************************************************)
(* C6.  For a page size of at least 1, total_pages is                      *)
(* ceil(count / page_size), and the pages 1..total_pages partition the     *)
(* collection as it was counted: every page before the last has page_size  *)
(* records, the last has count - (total_pages - 1) * page_size, and the    *)
(* pages in order are the collection.  count = 95, page_size = 20: 5       *)
(* pages, 15 records on page 5.                                            *)
(***************************************************************************)
C6_PagesPartitionTheCollection ==
    /\ (RunCounted /\ PageSizeGiven) =>
          /\ total_pages * page_size[1] >= total_docs
          /\ (total_pages - 1) * page_size[1] < total_docs
          /\ \A p \in 1..total_pages :
                Len(CountedPage(p)) =
                    IF p < total_pages THEN page_size[1]
                    ELSE total_docs - (total_pages - 1) * page_size[1]
          /\ Flatten([p \in 1..total_pages |-> CountedPage(p)]) = Collection(total_docs)
    /\ total_pages_of(95, 20) = 5
    /\ Len(get_all_with_pagination(Collection(95), 5, 20)) = 15

C6_Witness ==
    /\ pc = "loop"
    /\ total_docs = 3
    /\ page_size = Some(2)
    /\ total_pages = 2
    /\ Len(CountedPage(2)) = 1

(***************************************************************************)
(* C7.  A run that reaches its return statement returns a report with      *)
(* status success, total_processed = the number of source records          *)
(* processed, pages_processed = the number of pages processed and          *)
(* total_pages = ceil(count / page_size), for every startPage (absent and  *)
(* 0 included) and also after an early end on an empty page.               *)
(* The code subtracts the startPage argument as passed: it raises when     *)
(* startPage is absent and counts too many pages when startPage < 1; and   *)
(* total_processed counts one per page.                                    *)
(***************************************************************************)
C7_Report ==
    (RunOver /\ stage \in { "none", "return" }) =>
        /\ pc = "completed"
        /\ ~IsNone(report)
        /\ report[1].status = "success"
        /\ report[1].total_processed = SumRecords(processed, Len(processed))
        /\ report[1].pages_processed = Len(processed)
        /\ report[1].total_pages = total_pages

EndedOnEmptyPage ==
    /\ RunOver
    /\ stage /= "batch"
    /\ Len(fetched) = Len(processed) + 1

(***************************************************************************)
(* C8.  When a fetched page of the range is empty the run stops there: no  *)
(* later page is fetched, nothing is inserted for that page, and the run   *)
(* ends Completed with a success report and no exception.                  *)
(* With startPage absent the code raises while it builds the report.       *)
(***************************************************************************)
C8_EmptyPageCompletes ==
    EndedOnEmptyPage =>
        /\ batch_data = << >>
        /\ fetched[Len(fetched)] = current_page
        /\ \A i \in 1..Len(processed) : processed[i].page < current_page
        /\ Quiet => Len(AddedDocs) = SumCounts(processed, Len(processed))
        /\ ~ENABLED RunStep
        /\ pc = "completed"
        /\ ~IsNone(report)
        /\ report[1].status = "success"

(***************************************************************************)
(* C9.  update_vector on an existing document replaces its metadata by the *)
(* given one; an absent or empty embedding leaves the stored embedding as  *)
(* it was, a non-empty one replaces it; the document's _id and text and    *)
(* every other document are unchanged.  The call is one the vector         *)
(* collection answers: when it cannot be reached the call raises and       *)
(* nothing is written.                                                     *)
(***************************************************************************)
C9_UpdateExisting ==
    /\ (last.op = "update" /\ ~last.fault /\ last.id \in StoreIds(last.before)) =>
          /\ ~last.raised
          /\ Len(last.after) = Len(last.before)
          /\ \A i \in 1..Len(last.before) :
                LET old == last.before[i]
                    new == last.after[i]
                    given == ~IsNone(last.embedding) /\ last.embedding[1].dim > 0
                IN  IF old._id = last.id
                    THEN /\ DOMAIN new = DOMAIN old \cup { "metadata" }
                                \cup (IF given THEN { "embedding" } ELSE { })
                         /\ new.metadata = Some(last.metadata)
                         /\ given => new.embedding = last.embedding[1]
                         /\ \A f \in DOMAIN old \ { "metadata" } :
                                (f = "embedding" /\ given) \/ new[f] = old[f]
                    ELSE new = old
    /\ (last.op = "update" /\ last.fault) =>
          (last.raised /\ last.after = last.before)
    /\ last.op /= "none" => vstore = last.after

\* An update, with a metadata and an empty embedding, of the first of two
\* documents of a run: the metadata is the given one, the embedding is the
\* one the run stored.
C9_Witness ==
    /\ last.op = "update"
    /\ ~last.fault
    /\ Len(last.after) >= 2
    /\ \E i \in 1..Len(last.before) :
          /\ last.before[i]._id = last.id
          /\ last.before[i].metadata /= Some(last.metadata)
          /\ last.after[i].metadata = Some(last.metadata)
          /\ ~IsNone(last.embedding)
          /\ last.embedding[1].dim = 0
          /\ last.after[i].embedding = last.before[i].embedding
          /\ last.after[i].embedding.dim = target_embedding_size

(***************************************************************************)
(* C10.  update_vector and delete_vector with an id that is not in the     *)
(* vector collection do not raise, create no document and leave the        *)
(* collection as it was; delete_vector with an id that is there removes    *)
(* that document and no other.  The call is one the vector collection      *)
(* answers.                                                                *)
(***************************************************************************)
C10_MissingIdIsNoOp ==
    /\ (last.op \in { "update", "delete" } /\ ~last.fault
            /\ last.id \notin StoreIds(last.before)) =>
          /\ ~last.raised
          /\ last.log = "warning"
          /\ last.after = last.before
    /\ (last.op = "delete" /\ ~last.fault /\ last.id \in StoreIds(last.before)) =>
          /\ ~last.raised
          /\ Len(last.after) = Len(last.before) - 1
          /\ last.id \notin StoreIds(last.after)
          /\ last.after = SelectSeq(last.before, LAMBDA d : d._id /= last.id)

\* An update with an id that the collection, which holds a document of a run,
\* does not hold.
C10_Witness ==
    /\ last.op = "update"
    /\ ~last.fault
    /\ last.id \notin StoreIds(last.before)
    /\ Len(last.before) >= 1
    /\ ~last.raised
    /\ vstore = last.before

(***************************************************************************)
(* C11.  insert_vectors returns the number of documents it inserted, and   *)
(* given an empty list it raises an invalid-argument error before any      *)
(* write and leaves the vector collection as it was.                       *)
(* The code returns None from insert_vectors: the number of inserted ids   *)
(* is only logged.  The statement below is violated by every successful    *)
(* insert of a batch.                                                      *)
(***************************************************************************)
C11_InsertMany ==
    pc = "batch" =>
        \A draw \in 1..NumDraws :
            LET docs == vector_docs(batch_data, draw)
                res == insert_vectors(vstore, docs)
                empty == insert_vectors(vstore, << >>)
            IN  /\ ~res.raised =>
                      /\ res.ret = Some(Len(docs))
                      /\ Len(res.store) = Len(vstore) + Len(docs)
                /\ empty.raised
                /\ empty.error = "TypeError"
                /\ empty.store = vstore

(***************************************************************************)
(* C12.  get_all_with_pagination(collection, page, page_size) returns the  *)
(* records at positions (page - 1) * page_size + 1 .. min(page *           *)
(* page_size, count) of the collection in its natural order, at most       *)
(* page_size of them, and the empty list for every page after the last     *)
(* one; the page a run has fetched is that list, in the state the fetch    *)
(* leaves (before another client changes the collection).                  *)
(***************************************************************************)
C12_FetchPage ==
    /\ \A size \in 1..MaxDocs, page \in 1..(MaxDocs + 1) :
          LET got == get_all_with_pagination(source, page, size)
              lo == (page - 1) * size + 1
              hi == Min(page * size, Len(source))
          IN  /\ Len(got) <= size
              /\ Len(got) = Max(0, hi - lo + 1)
              /\ \A i \in 1..Len(got) : got[i] = source[lo + i - 1]
              /\ page > total_pages_of(Len(source), size) => got = << >>
    /\ (pc \in { "batch", "exit" } /\ last.op = "none") =>
          LET lo == (current_page - 1) * page_size[1] + 1
              hi == Min(current_page * page_size[1], Len(source))
          IN  /\ Len(batch_data) = Max(0, hi - lo + 1)
              /\ \A i \in 1..Len(batch_data) : batch_data[i] = source[lo + i - 1]

\* A run fetched a page after the last page of the collection, which an
\* upstream delete had shortened after the count, and got the empty list,
\* after it had fetched and processed the page before it.
C12_Witness ==
    /\ pc = "exit"
    /\ last.op = "none"
    /\ batch_data = << >>
    /\ current_page > total_pages_of(Len(source), page_size[1])
    /\ Len(source) >= 1
    /\ Len(processed) >= 1
    /\ Len(processed[Len(processed)].records) = page_size[1]

(***************************************************************************)
(* C13.  get_progress, on a pipeline that has recorded its source          *)
(* collection and whose two counts are answered, returns total_documents = *)
(* the source count, processed_documents = the vector collection's count,  *)
(* remaining_documents = their difference, and progress_percentage =       *)
(* processed / total * 100 when total > 0 and 0 when total = 0, without    *)
(* raising.  The source count is the one of the first read: it is the      *)
(* count of the collection at the return when no other client acted since. *)
(* (The call on a pipeline that never ran is C20.)                         *)
(***************************************************************************)
C13_Progress ==
    (gp.at \in { "returned", "raised" } /\ ~gp.fault
        /\ ~IsNone(source_collection)) =>
        /\ gp.at = "returned"
        /\ ~IsNone(progress)
        /\ LET p == progress[1]
               pct == p.progress_percentage
           IN  /\ p.total_documents = gp.total
               /\ gp.calls = calls => p.total_documents = Len(source)
               /\ last.op = "none" => p.processed_documents = Len(vstore)
               /\ p.remaining_documents = p.total_documents - p.processed_documents
               /\ pct.den >= 1
               /\ p.total_documents > 0 =>
                      pct.num * p.total_documents
                          = p.processed_documents * 100 * pct.den
               /\ p.total_documents = 0 => pct.num = 0

\* get_progress after a run during which the source collection was emptied,
\* with a document of the run in the vector collection: 0 percent of 0
\* documents, 1 processed, -1 remaining.
C13_Witness ==
    /\ gp.at = "returned"
    /\ gp.calls = calls
    /\ last.op = "none"
    /\ ~IsNone(progress)
    /\ progress[1].total_documents = 0
    /\ progress[1].processed_documents >= 1
    /\ progress[1].remaining_documents < 0
    /\ progress[1].progress_percentage.num = 0

\* The normalized texts of the records of batch k of this run.
TextsOfBatch(k) ==
    [i \in 1..Len(processed[k].records) |-> TextOf(processed[k].records[i])]

(***************************************************************************)
(* C14.  encode is deterministic and depends on its input: the vector a    *)
(* run stored for a text is the vector any encode call on that text        *)
(* returns, and two documents with different texts have different          *)
(* vectors.                                                                *)
(* The code builds a new random projection layer and a new random input    *)
(* on every call, so another call returns another vector, and the vector   *)
(* does not depend on the text.                                            *)
(***************************************************************************)
C14_EmbeddingDeterministic ==
    Quiet =>
    /\ \A k \in 1..Len(processed) :
          \A draw \in 1..NumDraws :
              LET again == encode(TextsOfBatch(k), draw)
                  docs == DocsOfBatch(k)
              IN  \A j \in 1..Min(Len(docs), Len(again)) :
                      again[j] = docs[j].embedding
    /\ \A a \in 1..Len(AddedDocs), b \in 1..Len(AddedDocs) :
          AddedDocs[a].text /= AddedDocs[b].text =>
              AddedDocs[a].embedding /= AddedDocs[b].embedding

(***************************************************************************)
(* C15.  models_to_text is deterministic and pure: called again with the   *)
(* record it was given (the same object, as get_embedding's caller and a   *)
(* batch do), it gives the same text, and the record has the same fields   *)
(* after the call as before it.                                            *)
(* The code stores the text in the record under "content", and the next    *)
(* call reads that field as one more field of the record.                  *)
(***************************************************************************)
C15_NormalizerPure ==
    pc = "batch" =>
        \A i \in 1..Len(batch_data) :
            LET item == SourceRecord(batch_data[i])
                once == models_to_text(<< item >>)[1]
                twice == models_to_text(<< once >>)[1]
            IN  /\ Lookup(twice, k_content) = Lookup(once, k_content)
                /\ once = item

\* The states of a run: Idle (idle), Paginating (loop, and exit once the loop
\* is left), ProcessingBatch (batch), Completed, Failed; and the moves
\* between them, the end of the request included (back to idle).
RunMoves ==
    { << "idle", "loop" >>, << "idle", "failed" >>,
      << "loop", "batch" >>, << "loop", "exit" >>, << "loop", "failed" >>,
      << "loop", "completed" >>,
      << "batch", "loop" >>, << "batch", "failed" >>,
      << "exit", "completed" >>, << "exit", "failed" >>,
      << "completed", "idle" >>, << "failed", "idle" >> }

C16_State ==
    /\ pc = "completed" => (~IsNone(report) /\ stage = "none")
    /\ pc = "failed" => (IsNone(report) /\ stage /= "none")
    /\ RunOver => ~ENABLED RunStep
    /\ \A i \in 1..Len(processed), j \in 1..Len(processed) :
          i < j => processed[i].page < processed[j].page

C16_Step ==
    /\ pc' /= pc => << pc, pc' >> \in RunMoves
    /\ (pc = "batch" /\ pc' = "loop") => current_page' > current_page
    /\ (Running /\ Running') => current_page' >= current_page
    /\ RunOver =>
          /\ ForeignStep \/ vstore' = vstore
          /\ pc' = pc => (fetched' = fetched /\ processed' = processed
                           /\ report' = report)

(***************************************************************************)
(* C16.  Every run, as long as each collaborator call returns or raises,   *)
(* ends in exactly one of Completed (a report was returned) and Failed (an *)
(* exception left run), along Idle -> Paginating -> ProcessingBatch* ->    *)
(* Completed | Failed; the current page strictly increases from one batch  *)
(* to the next, and the run fetches and inserts nothing once it is over.   *)
(***************************************************************************)
C16_Termination ==
    /\ [](C16_State)
    /\ [][C16_Step]_vars
    /\ (Running ~> RunOver)

\* A run completed after two batches.
C16_Witness ==
    /\ pc = "completed"
    /\ Len(processed) >= 2
    /\ ~IsNone(report)

(***************************************************************************)
(* C17.  Within a run the pages are fetched one by one in ascending order, *)
(* each at most once; a page is fetched only after the batch of the page   *)
(* before it was inserted, and there is at most one insert per page.       *)
(***************************************************************************)
C17_Sequential ==
    /\ \A i \in 1..Len(fetched), j \in 1..Len(fetched) :
          i < j => fetched[j] = fetched[i] + (j - i)
    /\ Len(processed) <= Len(fetched)
    /\ Len(fetched) <= Len(processed) + 1
    /\ \A i \in 1..Len(processed) : processed[i].page = fetched[i]
    /\ (pc /= "idle" /\ Quiet) =>
          Len(AddedDocs) = SumCounts(processed, Len(processed))
    /\ pc = "loop" => Len(fetched) = Len(processed)
    /\ pc \in { "batch", "exit" } =>
          /\ Len(fetched) = Len(processed) + 1
          /\ fetched[Len(fetched)] = current_page

\* The third page of a run is fetched, after the batches of pages 1 and 2.
C17_Witness ==
    /\ pc = "batch"
    /\ Quiet
    /\ Len(fetched) >= 3
    /\ Len(processed) = Len(fetched) - 1
    /\ Len(AddedDocs) >= 2

\* The records of the first page this run fetched.
FirstBatch == IF Len(processed) >= 1 THEN processed[1].records ELSE batch_data

\* An earlier run has ingested the first page of this run's range: the
\* vector collection held, when this run started, a document for every _id
\* this run makes a document for out of that page.
FirstPageIngestedBefore ==
    /\ pc /= "idle"
    /\ Quiet
    /\ Len(fetched) >= 1
    /\ Len(FirstBatch) >= 1
    /\ LET docs == vector_docs(FirstBatch, 1)
       IN  \A j \in 1..Len(docs) : docs[j]._id \in StoreIds(store0)

(***************************************************************************)
(* C18.  A run over pages an earlier run has ingested, with nothing        *)
(* deleted in between, is not a silent repeat: its inserts are bare        *)
(* inserts under the source record's _id, which the vector collection      *)
(* keeps unique, so the run fails at the first page of its range, with the *)
(* vector collection as the earlier run left it and no document twice.     *)
(***************************************************************************)
C18_RerunFailsAtFirstPage ==
    /\ FirstPageIngestedBefore =>
          /\ processed = << >>
          /\ vstore = store0
          /\ pc \in { "batch", "failed" }
          /\ pc = "failed" => (failed_at = fetched[1] /\ stage = "batch"
                               /\ IsNone(report))
    /\ \A i \in 1..Len(vstore), j \in 1..Len(vstore) :
          vstore[i]._id = vstore[j]._id => i = j

\* The second run failed at its first page, page 2, which the first run had
\* ingested together with page 1.
C18_Witness ==
    /\ runs = 2
    /\ FirstPageIngestedBefore
    /\ pc = "failed"
    /\ fetched = << 2 >>
    /\ Len(store0) >= 2
    /\ vstore = store0

\* The caller asked for an empty range: an endPage below the startPage (1
\* when absent), or the collection had no document when it was counted.
EmptyRangeAsked ==
    /\ RunCounted
    /\ \/ total_docs = 0
       \/ /\ ~IsNone(end_arg)
          /\ end_arg[1] < (IF IsNone(start_page) THEN 1 ELSE start_page[1])

(***************************************************************************)
(* C19.  When the requested range is empty (endPage < startPage, an        *)
(* explicit endPage = 0 included, or an empty collection) run fetches no   *)
(* page, inserts nothing and completes with total_processed = 0 and        *)
(* pages_processed = 0.                                                    *)
(* The code takes endPage = 0 for an absent endPage (C1) and computes      *)
(* pages_processed from the startPage as passed (C7).                      *)
(***************************************************************************)
C19_EmptyRange ==
    EmptyRangeAsked =>
        /\ fetched = << >>
        /\ Quiet => vstore = store0
        /\ RunOver =>
              /\ pc = "completed"
              /\ ~IsNone(report)
              /\ report[1].status = "success"
              /\ report[1].total_processed = 0
              /\ report[1].pages_processed = 0

(***************************************************************************)
(* C20.  get_progress can be called in any order relative to run: on a     *)
(* pipeline that has not run yet it returns a progress report too.         *)
(* The code records the source collection name in run only; get_progress   *)
(* on a new pipeline reads an attribute that does not exist and raises,    *)
(* with both counts answered.                                              *)
(***************************************************************************)
C20_ProgressInAnyOrder ==
    (gp.at \in { "returned", "raised" } /\ ~gp.fault) =>
        /\ gp.at = "returned"
        /\ ~IsNone(progress)
        /\ progress[1].total_documents = gp.total

(***************************************************************************)
(* C21.  At every point of a run (nothing else writes to the vector        *)
(* collection meanwhile) total_processed is the number of vector documents *)
(* the run has added so far, after those the collection held before, and   *)
(* is at most page_size times the number of pages processed so far and at  *)
(* most the number of source documents counted; the total_processed of a   *)
(* success report is the growth of the vector collection during the run.   *)
(***************************************************************************)
C21_TotalProcessed ==
    /\ (RunCounted /\ Quiet) =>
          /\ total_processed = Len(AddedDocs)
          /\ Len(vstore) >= Len(store0)
          /\ SubSeq(vstore, 1, Len(store0)) = store0
          /\ total_processed <= page_size[1] * Len(processed)
          /\ total_processed <= total_docs
    /\ pc = "completed" =>
          /\ ~IsNone(report)
          /\ Quiet => report[1].total_processed = Len(vstore) - Len(store0)

\* A second run completed after two pages, one of them of two records, on a
\* vector collection that held a document of the first run.
C21_Witness ==
    /\ pc = "completed"
    /\ Quiet
    /\ ~IsNone(report)
    /\ report[1].total_processed >= 2
    /\ \E k \in 1..Len(processed) : Len(processed[k].records) >= 2
    /\ Len(vstore) > report[1].total_processed

====
